---- MODULE Spec2Model ----
(***************************************************************************)
(* Jobofcron: the applied-job registry, the application queue and the      *)
(* background worker, modelled from src/src/jobofcron.                     *)
(*                                                                         *)
(* Text is modelled as sequences of one-character strings, so that the     *)
(* normalisations of the code (strip, lower, split/join, rstrip("/")) are  *)
(* computed and not assumed.  Python's None is the value None below, which *)
(* no text equals (its only element is not a single character).            *)
(* Timestamps are natural numbers.  The registry's first_seen_at and       *)
(* last_seen_at and the tasks' outcome_recorded_at are wall-clock stamps   *)
(* that no operation reads back; they are left out of the state.           *)
(***************************************************************************)
EXTENDS Integers, Sequences, FiniteSets, TLC

VARIABLES
  records,   \* AppliedJobRegistry.records: key -> AppliedJobRecord
  aliases,   \* AppliedJobRegistry.aliases: key -> key of a record
  regLog,    \* history: the record() calls made so far, with what held before each
  items,     \* ApplicationQueue.items
  qLog,      \* history: the queue operations made so far, with the task each found
  disk,      \* the store file: the queue and registry snapshots of the last save
  worker,    \* the JobAutomationWorker: whether ai_generator and email_sender are set
  wPc,       \* the worker: "idle", or "running" inside the loop of run_once
  wCfg,      \* the running pass: now and dry_run
  wDue,      \* the running pass: due, as indices into items
  wPos,      \* the running pass: the position in due of the next task
  runs,      \* the driver runs (worker passes, CLI commands) started so far
  clock,     \* the wall clock
  passLog,   \* history: the last worker pass and the last CLI command
  sentLog,   \* history: the job_ids of the applications that were submitted
  jobPosting, \* the JobPosting class: the fields its constructor accepts
  matchLog,  \* history: the last find_matching call and how it ended
  keysLog,  \* history: the postings _keys_for was called with, and the keys
  cliLog,  \* history: the CLI commands that saved while a worker pass was running
  storeFile, \* the file at Storage.path: missing, unreadable, or a document
  spc,       \* a process inside Storage.save: "idle" or "writing", and its text
  stLog,     \* history: the last Storage call, what it returned, the last save
  plan,      \* the last plan_schedule call: its arguments and what it returned
  skills,    \* SkillsInventory._skills, in insertion order
  skLog      \* history: the skill names passed to observe_skills and ensure

regVars == <<records, aliases, regLog>>
queueVars == <<items, qLog>>
workerVars == <<disk, worker, wPc, wCfg, wDue, wPos, runs, clock, passLog, sentLog>>
storeVars == <<storeFile, spc, stLog>>
skillVars == <<skills, skLog>>
extVars == <<jobPosting, matchLog, keysLog, cliLog, storeFile, spc, stLog, plan, skills, skLog>>
vars == <<records, aliases, regLog, items, qLog,
          disk, worker, wPc, wCfg, wDue, wPos, runs, clock, passLog, sentLog,
          jobPosting, matchLog, keysLog, cliLog, storeFile, spc, stLog, plan, skills, skLog>>

-----------------------------------------------------------------------------
(* Bounds *)

\* Longest sequence of registry calls explored.
MaxCalls == 3

\* Longest sequence of queue operations explored.
MaxOps == 3

\* Timestamps drawn as inputs are 0..MaxTime.
MaxTime == 2

\* Most driver runs (worker passes and CLI commands) explored.
MaxRuns == 2

\* JobAutomationWorker.retry_delay, in units of the clock.
RetryDelay == 1

-----------------------------------------------------------------------------
(* Text *)

None == <<"<None>">>

\* Python truthiness of an Optional[str].
Truthy(s) == s # None /\ s # << >>

IsSpace(c) == c \in {" ", "\t", "\n"}

UpperToLower ==
  [A |-> "a", B |-> "b", C |-> "c", D |-> "d", E |-> "e", F |-> "f",
   G |-> "g", H |-> "h", I |-> "i", J |-> "j", K |-> "k", L |-> "l",
   M |-> "m", N |-> "n", O |-> "o", P |-> "p", Q |-> "q", R |-> "r",
   S |-> "s", T |-> "t", U |-> "u", V |-> "v", W |-> "w", X |-> "x",
   Y |-> "y", Z |-> "z"]

LowerChar(c) == IF c \in DOMAIN UpperToLower THEN UpperToLower[c] ELSE c

\* str.lower()
Lower(s) == [i \in 1..Len(s) |-> LowerChar(s[i])]

RECURSIVE LStrip(_)
LStrip(s) == IF s # << >> /\ IsSpace(Head(s)) THEN LStrip(Tail(s)) ELSE s

RECURSIVE RStrip(_)
RStrip(s) ==
  IF s # << >> /\ IsSpace(s[Len(s)]) THEN RStrip(SubSeq(s, 1, Len(s) - 1)) ELSE s

\* str.strip()
Strip(s) == RStrip(LStrip(s))

\* str.split(): the maximal runs of non-space characters, in order.
RECURSIVE SplitFrom(_, _, _)
SplitFrom(s, cur, acc) ==
  IF s = << >>
    THEN IF cur = << >> THEN acc ELSE Append(acc, cur)
    ELSE IF IsSpace(Head(s))
           THEN SplitFrom(Tail(s), << >>, IF cur = << >> THEN acc ELSE Append(acc, cur))
           ELSE SplitFrom(Tail(s), Append(cur, Head(s)), acc)

Split(s) == SplitFrom(s, << >>, << >>)

\* " ".join(words)
RECURSIVE JoinSpace(_)
JoinSpace(words) ==
  IF words = << >> THEN << >>
  ELSE IF Len(words) = 1 THEN words[1]
  ELSE words[1] \o <<" ">> \o JoinSpace(Tail(words))

\* path.rstrip("/")
RECURSIVE RStripSlash(_)
RStripSlash(s) ==
  IF s # << >> /\ s[Len(s)] = "/" THEN RStripSlash(SubSeq(s, 1, Len(s) - 1)) ELSE s

-----------------------------------------------------------------------------
(* Posting fingerprints: job_history.py *)

\* An apply URL is held as urlparse() splits it; NoUrl is apply_url = None.
Url(scheme, netloc, path, query) ==
  [scheme |-> scheme, netloc |-> netloc, path |-> path, query |-> query]

NoUrl == Url(None, None, None, None)

\* The URL as a string is empty ("" is falsy, like None).
UrlFalsy(u) ==
  u = NoUrl \/ (u.scheme = << >> /\ u.netloc = << >> /\ u.path = << >> /\ u.query = << >>)

_normalise_text(value) ==
  IF ~Truthy(value) THEN << >> ELSE JoinSpace(Split(Lower(Strip(value))))

_normalise_url(u) ==
  IF UrlFalsy(u) THEN None
  ELSE LET netloc == Lower(u.netloc)
           path == RStripSlash(u.path)
           query == IF u.query # << >> THEN <<"?">> \o u.query ELSE << >>
       IN IF netloc = << >> /\ path = << >> THEN None
          ELSE <<"u", "r", "l", ":", ":">> \o netloc \o path \o query

_combo_key(title, company) ==
  LET title_key == _normalise_text(title)
      company_key == _normalise_text(company)
  IN IF title_key = << >> /\ company_key = << >> THEN None
     ELSE <<"r", "o", "l", "e", ":", ":">> \o company_key \o <<":", ":">> \o title_key

_keys_for_rolefirst(posting) ==
  LET url_key == _normalise_url(posting.apply_url)
      combo == _combo_key(posting.title, posting.company)
      keys1 == IF Truthy(combo) THEN <<combo>> ELSE << >>
      keys2 == IF Truthy(url_key) THEN Append(keys1, url_key) ELSE keys1
  IN IF keys2 = << >>
       THEN LET t == _normalise_text(posting.title)
            IN <<(<<"f", "a", "l", "l", "b", "a", "c", "k", ":", ":">>
                  \o (IF t # << >> THEN t ELSE <<"u", "n", "k", "n", "o", "w", "n">>))>>
       ELSE keys2

_keys_for_norole(posting) ==
  LET url_key == _normalise_url(posting.apply_url)
      keys1 == IF Truthy(url_key) THEN <<url_key>> ELSE << >>
  IN IF keys1 = << >>
       THEN LET t == _normalise_text(posting.title)
            IN <<(<<"f", "a", "l", "l", "b", "a", "c", "k", ":", ":">>
                  \o (IF t # << >> THEN t ELSE <<"u", "n", "k", "n", "o", "w", "n">>))>>
       ELSE keys1

_keys_for(posting) ==
  LET url_key == _normalise_url(posting.apply_url)
      keys1 == IF Truthy(url_key) THEN <<url_key>> ELSE << >>
      combo == _combo_key(posting.title, posting.company)
      keys2 == IF Truthy(combo) THEN Append(keys1, combo) ELSE keys1
  IN IF keys2 = << >>
       THEN LET t == _normalise_text(posting.title)
            IN <<(<<"f", "a", "l", "l", "b", "a", "c", "k", ":", ":">>
                  \o (IF t # << >> THEN t ELSE <<"u", "n", "k", "n", "o", "w", "n">>))>>
       ELSE keys2

\* No _keys_for call has been logged.
NoKeysCall == << >>

-----------------------------------------------------------------------------
(* Applied-job registry: job_history.py *)

Posting(id, title, company, apply_url, contact_email) ==
  [id |-> id, title |-> title, company |-> company,
   apply_url |-> apply_url, contact_email |-> contact_email]

EmptyMap == [k \in {} |-> k]

\* The keys of a sequence, as a set.
Range(seq) == {seq[i] : i \in 1..Len(seq)}

\* AppliedJobRecord.touch (last_seen_at is not modelled).
touch_noincrement(rec, status) ==
  [rec EXCEPT !.last_status = IF Truthy(status) THEN status ELSE @]

touch(rec, status) ==
  [rec EXCEPT !.last_status = IF Truthy(status) THEN status ELSE @,
              !.occurrences = @ + 1]

\* find(): the key of the first record a key of the posting resolves to, or None.
RECURSIVE FindIn(_, _, _)
FindIn(recs, al, keys) ==
  IF keys = << >> THEN None
  ELSE LET key == Head(keys)
           target == IF key \in DOMAIN al THEN al[key] ELSE key
       IN IF target \in DOMAIN recs THEN target ELSE FindIn(recs, al, Tail(keys))

find(recs, al, posting) == FindIn(recs, al, _keys_for(posting))

\* record(), lines 113-118: the first key whose alias names an existing record.
RECURSIVE ExistingFor(_, _, _)
ExistingFor(recs, al, keys) ==
  IF keys = << >> THEN None
  ELSE LET key == Head(keys)
       IN IF key \in DOMAIN al /\ Truthy(al[key]) /\ al[key] \in DOMAIN recs
            THEN al[key]
            ELSE ExistingFor(recs, al, Tail(keys))

\* aliases[key] = target for every key of keys.
Realias_fresh(al, keys, target) == [k \in Range(keys) |-> target]

Realias_primary(al, keys, target) ==
  [k \in DOMAIN al \cup {keys[1]} |-> IF k = keys[1] THEN target ELSE al[k]]

Realias(al, keys, target) ==
  [k \in DOMAIN al \cup Range(keys) |-> IF k \in Range(keys) THEN target ELSE al[k]]

\* record(posting, status=status): the registry afterwards.
record(recs, al, posting, status) ==
  LET keys == _keys_for(posting)
      hit == ExistingFor(recs, al, keys)
  IN IF hit # None
       THEN LET touched == touch(recs[hit], status)
                existing ==
                  [touched EXCEPT
                     !.last_status = IF Truthy(status) /\ ~Truthy(@) THEN status ELSE @,
                     !.apply_url = IF ~UrlFalsy(posting.apply_url) THEN posting.apply_url ELSE @,
                     !.company = IF Truthy(posting.company) THEN posting.company ELSE @,
                     !.title = IF Truthy(posting.title) THEN posting.title ELSE @]
            IN [records |-> [recs EXCEPT ![hit] = existing],
                aliases |-> Realias(al, keys, existing.key)]
       ELSE LET primary_key == keys[1]
                new == [key |-> primary_key, title |-> posting.title,
                        company |-> posting.company, apply_url |-> posting.apply_url,
                        last_status |-> status, occurrences |-> 1]
            IN [records |-> [k \in DOMAIN recs \cup {primary_key} |->
                               IF k = primary_key THEN new ELSE recs[k]],
                aliases |-> Realias(al, keys, primary_key)]

-----------------------------------------------------------------------------
(* Application queue: application_queue.py *)

sApplied == <<"a", "p", "p", "l", "i", "e", "d">>
sPending == <<"p", "e", "n", "d", "i", "n", "g">>
sFailed == <<"f", "a", "i", "l", "e", "d">>
sUnknown == <<"U", "n", "k", "n", "o", "w", "n">>

\* Error messages.
eX == <<"x">>
eY == <<"y">>

\* A note is <<kind, text>>: the f-string that produced it and the text it
\* embeds (its timestamp is left out).
Note(kind, text) == <<kind, text>>

\* QueuedApplication(posting, apply_at, ...) with the dataclass defaults.
QueuedApplication(posting, apply_at, status, notes, attempts, last_error) ==
  [posting |-> posting, apply_at |-> apply_at, status |-> status, notes |-> notes,
   attempts |-> attempts, last_error |-> last_error, outcome |-> None,
   resume_path |-> None, cover_letter_path |-> None]

NewTask(posting, apply_at, notes) ==
  QueuedApplication(posting, apply_at, sPending, notes, 0, None)

job_id(task) ==
  IF Truthy(task.posting.id) THEN task.posting.id
  ELSE task.posting.title \o <<"@">> \o task.posting.company

mark_success_keeperror(task) ==
  [task EXCEPT !.status = sApplied, !.attempts = @ + 1,
               !.notes = Append(@, Note("applied", << >>)), !.outcome = sApplied]

mark_success(task) ==
  [task EXCEPT !.status = sApplied, !.attempts = @ + 1, !.last_error = None,
               !.notes = Append(@, Note("applied", << >>)), !.outcome = sApplied]

mark_failure_drops(task, error) ==
  [task EXCEPT !.status = sFailed, !.attempts = @ + 1, !.last_error = error,
               !.notes = Append(@, Note("failed", error))]

mark_failure(task, error) ==
  [task EXCEPT !.status = sPending, !.attempts = @ + 1, !.last_error = error,
               !.notes = Append(@, Note("failed", error))]

defer_keeps(task, new_time) == task

defer(task, new_time) == [task EXCEPT !.apply_at = new_time]

record_outcome_keepstatus(task, outcome, note) ==
  [task EXCEPT !.outcome = Lower(Strip(outcome)),
               !.notes = Append(@, Note("outcome", Lower(Strip(outcome))))]

record_outcome_counts(task, outcome, note) ==
  LET outcome_normalised == Lower(Strip(outcome))
      noted == Append(task.notes, Note("outcome", outcome_normalised))
  IN [task EXCEPT !.outcome = outcome_normalised, !.status = outcome_normalised,
                  !.attempts = @ + 1,
                  !.notes = IF Truthy(note) /\ Truthy(Strip(note))
                              THEN Append(noted, Note("text", Strip(note)))
                              ELSE noted]

record_outcome(task, outcome, note) ==
  LET outcome_normalised == Lower(Strip(outcome))
      noted == Append(task.notes, Note("outcome", outcome_normalised))
  IN [task EXCEPT !.outcome = outcome_normalised, !.status = outcome_normalised,
                  !.notes = IF Truthy(note) /\ Truthy(Strip(note))
                              THEN Append(noted, Note("text", Strip(note)))
                              ELSE noted]

\* [app for app in items if keep(app)]
RECURSIVE WithoutJob(_, _)
WithoutJob(its, jid) ==
  IF its = << >> THEN << >>
  ELSE IF job_id(Head(its)) # jid
         THEN <<Head(its)>> \o WithoutJob(Tail(its), jid)
         ELSE WithoutJob(Tail(its), jid)

\* get(job_id): the index of the first entry with that job_id, 0 for none.
RECURSIVE GetFrom(_, _, _)
GetFrom(its, jid, i) ==
  IF i > Len(its) THEN 0
  ELSE IF job_id(its[i]) = jid THEN i ELSE GetFrom(its, jid, i + 1)

get(its, jid) == GetFrom(its, jid, 1)

\* add(application): the items afterwards.
add_ownattempts(its, application) ==
  LET existing == get(its, job_id(application))
  IN IF existing # 0
       THEN Append(WithoutJob(its, job_id(application)),
                   [application EXCEPT
                      !.notes = its[existing].notes \o application.notes,
                      !.last_error = its[existing].last_error])
       ELSE Append(its, application)

add_keepstatus(its, application) ==
  LET existing == get(its, job_id(application))
  IN IF existing # 0
       THEN Append(WithoutJob(its, job_id(application)),
                   [application EXCEPT
                      !.notes = its[existing].notes \o application.notes,
                      !.attempts = its[existing].attempts,
                      !.last_error = its[existing].last_error,
                      !.status = its[existing].status,
                      !.outcome = its[existing].outcome])
       ELSE Append(its, application)

add_keepboth(its, application) == Append(its, application)

add(its, application) ==
  LET existing == get(its, job_id(application))
  IN IF existing # 0
       THEN Append(WithoutJob(its, job_id(application)),
                   [application EXCEPT
                      !.notes = its[existing].notes \o application.notes,
                      !.attempts = its[existing].attempts,
                      !.last_error = its[existing].last_error])
       ELSE Append(its, application)

\* The filter of due(): line 154.
IsDue_strict(task, when) == task.status = sPending /\ task.apply_at < when

IsDue(task, when) == task.status = sPending /\ task.apply_at <= when

\* sorted(pending, key=apply_at): a stable sort, here by insertion of each
\* index after the indices already placed whose apply_at is not greater.
RECURSIVE InsertByApplyAt(_, _, _)
InsertByApplyAt(its, sorted, i) ==
  IF sorted = << >> THEN <<i>>
  ELSE IF its[Head(sorted)].apply_at <= its[i].apply_at
         THEN <<Head(sorted)>> \o InsertByApplyAt(its, Tail(sorted), i)
         ELSE <<i>> \o sorted

RECURSIVE SortedDue(_, _, _, _)
SortedDue(its, when, i, sorted) ==
  IF i > Len(its) THEN sorted
  ELSE SortedDue(its, when, i + 1,
                 IF IsDue(its[i], when) THEN InsertByApplyAt(its, sorted, i) ELSE sorted)

\* due(when), as the indices into items of the tasks returned, in order.
due_queue_order(its, when) ==
  SelectSeq([i \in 1..Len(its) |-> i], LAMBDA i : IsDue(its[i], when))

due(its, when) == SortedDue(its, when, 1, << >>)

\* pending(), as indices into items.
pending(its) == {i \in 1..Len(its) : its[i].status = sPending}

\* The methods class ApplicationQueue defines.
ApplicationQueueMethods ==
  {"add", "get", "due", "pending", "to_snapshot", "from_snapshot"}

find_matching_defined(its, posting) == [raised |-> FALSE, result |-> 0]

\* queue.find_matching(posting): the attribute lookup on the queue raises
\* AttributeError for a name the class does not define, before any task is
\* looked at; result is the index of the task returned, 0 for none.
find_matching(its, posting) ==
  [raised |-> "find_matching" \notin ApplicationQueueMethods, result |-> 0]

\* No find_matching call made yet.
NoMatchCall ==
  [called |-> FALSE, posting |-> Posting(None, None, None, NoUrl, None),
   raised |-> FALSE, result |-> 0, before |-> << >>]

\* The JobPosting dataclass as job_matching.py declares it: its fields.
JobPostingFields ==
  {"title", "company", "id", "location", "salary_text", "description", "tags",
   "felon_friendly"}

\* The keyword arguments from_dict (and every caller in cli.py) builds a
\* JobPosting with.
PostingKwargs == JobPostingFields \cup {"apply_url", "contact_email"}

\* JobPosting(**kwargs) raises TypeError on a keyword the class does not have.
JobPosting_raises(kwargs) == ~(kwargs \subseteq jobPosting)

\* Reading an attribute the object does not have raises AttributeError.
Absent == <<"<absent>">>

AbsentUrl == Url(Absent, Absent, Absent, Absent)

\* JobPosting(title="Unknown", company="Unknown"): the other fields at their
\* defaults, for the fields the class has.
UnknownPosting ==
  Posting(None, sUnknown, sUnknown,
          IF "apply_url" \in jobPosting THEN NoUrl ELSE AbsentUrl,
          IF "contact_email" \in jobPosting THEN None ELSE Absent)

\* A queue snapshot entry is a task dictionary; BadTime stands for an apply_at
\* that is missing or not an ISO timestamp, on which from_dict raises.
BadTime == 0 - 1

\* from_dict(payload) raises: line 98 (TypeError) or line 110.
from_dict_raises(entry) == JobPosting_raises(PostingKwargs) \/ entry.apply_at = BadTime

\* str(exc) of what from_dict raised.
from_dict_error(entry) ==
  IF JobPosting_raises(PostingKwargs)
    THEN <<"__init__() got an unexpected keyword argument 'apply_url'">>
    ELSE <<"'apply_at'">>

\* to_dict() raises AttributeError: lines 75-76.
to_dict_raises(task) ==
  task.posting.apply_url = AbsentUrl \/ task.posting.contact_email = Absent

\* to_dict(): the task dictionary, field by field (timestamps stay numbers).
to_dict(task) ==
  [posting |-> [id |-> task.posting.id, title |-> task.posting.title,
                company |-> task.posting.company,
                apply_url |-> task.posting.apply_url,
                contact_email |-> task.posting.contact_email],
   apply_at |-> task.apply_at, status |-> task.status,
   resume_path |-> task.resume_path, cover_letter_path |-> task.cover_letter_path,
   notes |-> task.notes, attempts |-> task.attempts, last_error |-> task.last_error,
   outcome |-> task.outcome]

\* from_dict(payload), for a payload on which it does not raise.
from_dict(payload) ==
  [posting |-> Posting(payload.posting.id, payload.posting.title,
                       payload.posting.company, payload.posting.apply_url,
                       payload.posting.contact_email),
   apply_at |-> payload.apply_at, status |-> payload.status,
   resume_path |-> payload.resume_path,
   cover_letter_path |-> payload.cover_letter_path,
   notes |-> payload.notes, attempts |-> payload.attempts,
   last_error |-> payload.last_error, outcome |-> payload.outcome]

\* to_snapshot()
queue_to_snapshot_pending_only(its) ==
  LET keep == SelectSeq(its, LAMBDA t : t.status = sPending)
  IN [i \in 1..Len(keep) |-> to_dict(keep[i])]

queue_to_snapshot(its) == [i \in 1..Len(its) |-> to_dict(its[i])]

\* from_snapshot(payload), loaded at time now.
RECURSIVE from_snapshot(_, _)
from_snapshot(payload, now) ==
  IF payload = << >> THEN << >>
  ELSE <<(IF from_dict_raises(Head(payload))
            THEN QueuedApplication(UnknownPosting, now, sFailed,
                                   <<Note("load", from_dict_error(Head(payload)))>>,
                                   0, None)
            ELSE from_dict(Head(payload)))>>
       \o from_snapshot(Tail(payload), now)

-----------------------------------------------------------------------------
(* Persistence: storage.py, and the registry snapshot of job_history.py *)

\* AppliedJobRegistry.to_snapshot(): the record dictionaries and the aliases.
registry_to_snapshot(recs, al) ==
  [records |-> {recs[k] : k \in DOMAIN recs}, aliases |-> al]

\* AppliedJobRegistry.from_snapshot(payload): the records by their "key", and
\* the aliases that point at one of them.
registry_from_snapshot_keepaliases(payload) ==
  [records |-> [k \in {r.key : r \in payload.records} |->
                  CHOOSE r \in payload.records : r.key = k],
   aliases |-> payload.aliases]

registry_from_snapshot(payload) ==
  LET recs == [k \in {r.key : r \in payload.records} |->
                 CHOOSE r \in payload.records : r.key = k]
  IN [records |-> recs,
      aliases |-> [k \in {k \in DOMAIN payload.aliases :
                            payload.aliases[k] \in DOMAIN recs}
                     |-> payload.aliases[k]]]

\* Storage.save(profile, skills, queue, history): the file afterwards.
save(its, recs, al) ==
  [queue |-> queue_to_snapshot(its), history |-> registry_to_snapshot(recs, al)]

\* Storage.load(): the queue and the registry.
load(doc, now) ==
  [queue |-> from_snapshot(doc.queue, now),
   history |-> registry_from_snapshot(doc.history)]

EmptyStore == [queue |-> << >>, history |-> [records |-> {}, aliases |-> EmptyMap]]

-----------------------------------------------------------------------------
(* Worker: worker.py *)

Digits == {"0", "1", "2", "3", "4", "5", "6", "7", "8", "9"}

\* str.isalnum(), on the characters the model uses.
IsAlnum(c) ==
  c \in DOMAIN UpperToLower \/ c \in {UpperToLower[x] : x \in DOMAIN UpperToLower}
    \/ c \in Digits

RECURSIVE JoinDash(_)
JoinDash(parts) ==
  IF parts = << >> THEN << >>
  ELSE IF Len(parts) = 1 THEN parts[1]
  ELSE parts[1] \o <<"-">> \o JoinDash(Tail(parts))

\* _slugify(*parts)
_slugify(parts) ==
  LET kept == SelectSeq(parts, LAMBDA part : Truthy(part))
      clean(part) == [i \in 1..Len(Lower(Strip(part))) |->
                        IF Lower(Strip(part))[i] = " " THEN "-" ELSE Lower(Strip(part))[i]]
      cleaned == JoinDash([i \in 1..Len(kept) |-> clean(kept[i])])
  IN SelectSeq(cleaned, LAMBDA c : IsAlnum(c) \/ c \in {"-", "_"})

\* _ensure_documents(task, profile, assessment), when nothing propagates out
\* of it.  docs tells which AI generation raised DocumentGenerationError.
_ensure_documents(task, docs) ==
  LET slug == _slugify(<<task.posting.title, task.posting.company, job_id(task)>>)
      resume_path == IF Truthy(task.resume_path) THEN task.resume_path
                     ELSE <<"documents_dir/">> \o slug \o <<"_resume.md">>
      cover_path == IF Truthy(task.cover_letter_path) THEN task.cover_letter_path
                    ELSE <<"documents_dir/">> \o slug \o <<"_cover_letter.md">>
      notes1 == IF docs = "ai_resume_error"
                  THEN Append(task.notes, Note("ai_resume", << >>)) ELSE task.notes
      notes2 == IF docs = "ai_cover_error"
                  THEN Append(notes1, Note("ai_cover", << >>)) ELSE notes1
  IN [task EXCEPT !.notes = notes2, !.resume_path = resume_path,
                  !.cover_letter_path = cover_path]

sMailto == <<"m", "a", "i", "l", "t", "o">>

\* run_once, lines 68-71
email_target(posting) ==
  \/ Truthy(posting.contact_email)
  \/ (~UrlFalsy(posting.apply_url) /\ posting.apply_url.scheme = sMailto)

\* What the collaborators do for one task: fit analysis and document
\* generation ("raise": an exception propagates out of them), the email
\* sender, the browser automation, and str(exc) of what was raised.
DocsOutcomes == {"ok", "ai_resume_error", "ai_cover_error", "raise"}
EmailOutcomes == {"sent", "not_sent", "raise"}
BrowserOutcomes == {"submitted", "no_button", "dependency_error", "error"}

Collab(fit, docs, email, browser, msg) ==
  [fit |-> fit, docs |-> docs, email |-> email, browser |-> browser, msg |-> msg]

\* The task gets past fit analysis and document generation.
Prepared(o) == o.fit = "ok" /\ o.docs # "raise"

\* The email sender is called: lines 72-80.
EmailCalled(task, cfg, o) ==
  Prepared(o) /\ email_target(task.posting) /\ cfg.has_email

\* The browser automation is called: lines 106-112.
BrowserCalled(task, cfg, o) ==
  /\ Prepared(o)
  /\ ~cfg.dry_run
  /\ (EmailCalled(task, cfg, o) => o.email = "not_sent")

CollabOutcomes ==
  [fit : {"ok", "raise"}, docs : DocsOutcomes, email : EmailOutcomes,
   browser : BrowserOutcomes, msg : {eX, << >>}]

\* The collaborator behaviours that differ for a task: a collaborator that is
\* not called is given its first outcome, and only the browser automation's
\* generic exception is taken with an empty message too.  For a posting
\* without apply_url, DirectApplyAutomation.apply raises ValueError with a
\* message.
Distinct(task, cfg, o) ==
  /\ (o.fit = "raise" => o.docs = "ok")
  /\ (o.docs \in {"ai_resume_error", "ai_cover_error"} => cfg.has_ai)
  /\ (~EmailCalled(task, cfg, o) => o.email = "sent")
  /\ (~BrowserCalled(task, cfg, o) => o.browser = "submitted")
  /\ (o.msg = << >> => BrowserCalled(task, cfg, o) /\ o.browser = "error")
  /\ ((BrowserCalled(task, cfg, o) /\ UrlFalsy(task.posting.apply_url))
        => (o.browser = "error" /\ o.msg # << >>))

\* A failed attempt: mark_failure(error) and defer(now + retry_delay).
Requeued(task, error, now) == defer(mark_failure(task, error), now + RetryDelay)

\* One iteration of the loop of run_once from line 67 on, for a task whose
\* documents are ready: the task, the registry and what happened.
Attempt_norecord(task, recs, al, cfg, o) ==
  LET same(t, result) == [task |-> t, records |-> recs, aliases |-> al, result |-> result]
      applied == same(mark_success(task), "applied")
      fallback == IF email_target(task.posting) /\ ~cfg.has_email
                    THEN [task EXCEPT !.notes = Append(@, Note("email_fallback", << >>))]
                    ELSE task
  IN IF EmailCalled(task, cfg, o) /\ o.email = "raise"
       THEN same(Requeued(task, <<"Email send failed: ">> \o o.msg, cfg.now), "failed")
     ELSE IF EmailCalled(task, cfg, o) /\ cfg.dry_run
       THEN same(defer([task EXCEPT !.notes = Append(@, Note("dry_run_email", << >>))],
                       cfg.now + RetryDelay), "dry_run")
     ELSE IF EmailCalled(task, cfg, o) /\ o.email = "sent"
       THEN applied
     ELSE IF cfg.dry_run
       THEN same(defer([fallback EXCEPT !.notes = Append(@, Note("dry_run", << >>))],
                       cfg.now + RetryDelay), "dry_run")
     ELSE IF o.browser = "submitted"
       THEN LET done == mark_success(fallback)
                reg == record(recs, al, done.posting, done.status)
            IN [task |-> done, records |-> reg.records, aliases |-> reg.aliases,
                result |-> "applied"]
     ELSE IF o.browser = "no_button"
       THEN same(Requeued(fallback, <<"No submit button detected">>, cfg.now), "failed")
     ELSE same(Requeued(fallback, o.msg, cfg.now), "failed")

Attempt(task, recs, al, cfg, o) ==
  LET same(t, result) == [task |-> t, records |-> recs, aliases |-> al, result |-> result]
      applied == LET done == mark_success(task)
                     reg == record(recs, al, done.posting, done.status)
                 IN [task |-> done, records |-> reg.records, aliases |-> reg.aliases,
                     result |-> "applied"]
      fallback == IF email_target(task.posting) /\ ~cfg.has_email
                    THEN [task EXCEPT !.notes = Append(@, Note("email_fallback", << >>))]
                    ELSE task
  IN IF EmailCalled(task, cfg, o) /\ o.email = "raise"
       THEN same(Requeued(task, <<"Email send failed: ">> \o o.msg, cfg.now), "failed")
     ELSE IF EmailCalled(task, cfg, o) /\ cfg.dry_run
       THEN same(defer([task EXCEPT !.notes = Append(@, Note("dry_run_email", << >>))],
                       cfg.now + RetryDelay), "dry_run")
     ELSE IF EmailCalled(task, cfg, o) /\ o.email = "sent"
       THEN applied
     ELSE IF cfg.dry_run
       THEN same(defer([fallback EXCEPT !.notes = Append(@, Note("dry_run", << >>))],
                       cfg.now + RetryDelay), "dry_run")
     ELSE IF o.browser = "submitted"
       THEN LET done == mark_success(fallback)
                reg == record(recs, al, done.posting, done.status)
            IN [task |-> done, records |-> reg.records, aliases |-> reg.aliases,
                result |-> "applied"]
     ELSE IF o.browser = "no_button"
       THEN same(Requeued(fallback, <<"No submit button detected">>, cfg.now), "failed")
     ELSE same(Requeued(fallback, o.msg, cfg.now), "failed")

-----------------------------------------------------------------------------
(* Inputs of the registry specification *)

tDev == <<"D", "e", "v">>
tDevSpaced == <<" ", "d", "e", "v", " ">>
cAcme == <<"A", "c">>
cAcmeUpper == <<"A", "C">>
sHttps == <<"h", "t", "t", "p", "s">>
hostA == <<"a", ".", "c", "o">>
hostAUpper == <<"A", ".", "c", "o">>

U1 == Url(sHttps, hostA, <<"/", "1">>, << >>)
U1Slash == Url(sHttps, hostAUpper, <<"/", "1", "/">>, << >>)
U2 == Url(sHttps, hostA, <<"/", "2">>, << >>)
U3 == Url(sHttps, hostA, <<"/", "j">>, <<"i", "=", "3">>)

\* The statuses record() is called with: none, or "applied".
RegStatuses == {None, sApplied}

RegPostings ==
  { Posting(None, tDev, cAcme, U1, None),
    Posting(None, tDev, cAcme, U2, None),
    Posting(None, tDevSpaced, cAcmeUpper, NoUrl, None),
    Posting(None, << >>, << >>, U1Slash, None),
    Posting(None, << >>, << >>, U3, None),
    Posting(None, << >>, << >>, NoUrl, None) }

-----------------------------------------------------------------------------
(* Registry actions *)

RegInit ==
  /\ records = EmptyMap
  /\ aliases = EmptyMap
  /\ regLog = << >>

\* registry.record(p, status=status)
Record(p, status) ==
  /\ Len(regLog) < MaxCalls
  /\ LET after == record(records, aliases, p, status)
     IN /\ records' = after.records
        /\ aliases' = after.aliases
  /\ regLog' = Append(regLog,
                      [p |-> p, status |-> status,
                       fresh |-> {q \in RegPostings : find(records, aliases, q) = None},
                       nrec |-> Cardinality(DOMAIN records)])
  /\ UNCHANGED <<queueVars, workerVars, extVars>>

RegistryNext == \E p \in RegPostings, status \in RegStatuses : Record(p, status)

-----------------------------------------------------------------------------
(* Inputs of the queue specification *)

Times == 0..MaxTime

jobA == Posting(<<"j", "1">>, tDev, cAcme, U1, None)
jobB == Posting(None, tDev, cAcme, U2, None)
jobC == Posting(<<"j", "2">>, tDevSpaced, cAcmeUpper, NoUrl, None)

\* The tasks add() is called with: fresh ones, one with notes of its own, and
\* one built with attempts and last_error of its own.
QueueTasks ==
  { NewTask(jobA, 1, << >>),
    NewTask(jobA, 0, <<Note("text", <<"n">>)>>),
    QueuedApplication(jobA, 2, sPending, <<Note("text", <<"m">>)>>, 2, eY),
    NewTask(jobB, 1, << >>),
    NewTask(jobC, 0, << >>) }

\* The queue snapshots loaded: empty, well-formed, and with entries whose
\* apply_at does not parse.
SnapPayloads ==
  { << >>,
    <<NewTask(jobA, 1, << >>), NewTask(jobB, 0, << >>), NewTask(jobC, 1, << >>)>>,
    <<NewTask(jobB, 2, << >>), NewTask(jobA, BadTime, << >>)>>,
    <<NewTask(jobA, BadTime, << >>), NewTask(jobB, BadTime, << >>)>> }

\* The outcomes record_outcome() is called with, and the free-text notes.
TerminalOutcomes ==
  { sApplied,
    <<"r", "e", "j", "e", "c", "t", "e", "d">>,
    <<"g", "h", "o", "s", "t", "e", "d">>,
    <<"o", "f", "f", "e", "r">>,
    <<"i", "n", "t", "e", "r", "v", "i", "e", "w">> }

OutcomeCalls ==
  { <<sApplied, None>>,
    <<(<<"R", "e", "j", "e", "c", "t", "e", "d">>), None>>,
    <<(<<"g", "h", "o", "s", "t", "e", "d">>), <<" ", "n", " ">>>>,
    <<(<<"O", "F", "F", "E", "R">>), <<" ">>>>,
    <<(<<" ", "I", "n", "t", "e", "r", "v", "i", "e", "w">>), None>> }

-----------------------------------------------------------------------------
(* Queue actions *)

QueueInit ==
  /\ items = << >>
  /\ qLog = << >>

\* A log entry: the operation, the index of the task it acted on, its
\* argument, and the task it found there before (a sequence of at most one).
Logged(op, i, arg, pre) == Append(qLog, [op |-> op, i |-> i, arg |-> arg, pre |-> pre])

\* queue.add(task)
Add(task) ==
  /\ Len(qLog) < MaxOps
  /\ items' = add(items, task)
  /\ qLog' = Logged("add", Len(items'), task,
                    IF get(items, job_id(task)) # 0
                      THEN <<items[get(items, job_id(task))]>> ELSE << >>)
  /\ UNCHANGED <<regVars, workerVars, extVars>>

\* queue = ApplicationQueue.from_snapshot(payload)
FromSnapshot(payload, now) ==
  /\ Len(qLog) < MaxOps
  /\ items' = from_snapshot(payload, now)
  /\ qLog' = Logged("from_snapshot", 0, payload, << >>)
  /\ UNCHANGED <<regVars, workerVars, extVars>>

\* items[i].mark_success()
MarkSuccess(i) ==
  /\ Len(qLog) < MaxOps
  /\ items' = [items EXCEPT ![i] = mark_success(@)]
  /\ qLog' = Logged("mark_success", i, None, <<items[i]>>)
  /\ UNCHANGED <<regVars, workerVars, extVars>>

\* items[i].mark_failure(error)
MarkFailure(i, error) ==
  /\ Len(qLog) < MaxOps
  /\ items' = [items EXCEPT ![i] = mark_failure(@, error)]
  /\ qLog' = Logged("mark_failure", i, error, <<items[i]>>)
  /\ UNCHANGED <<regVars, workerVars, extVars>>

\* items[i].defer(new_time)
Defer(i, new_time) ==
  /\ Len(qLog) < MaxOps
  /\ items' = [items EXCEPT ![i] = defer(@, new_time)]
  /\ qLog' = Logged("defer", i, new_time, <<items[i]>>)
  /\ UNCHANGED <<regVars, workerVars, extVars>>

\* items[i].record_outcome(outcome, note=note)
RecordOutcome(i, outcome, note) ==
  /\ Len(qLog) < MaxOps
  /\ items' = [items EXCEPT ![i] = record_outcome(@, outcome, note)]
  /\ qLog' = Logged("record_outcome", i, outcome, <<items[i]>>)
  /\ UNCHANGED <<regVars, workerVars, extVars>>

QueueNext ==
  \/ \E task \in QueueTasks : Add(task)
  \/ \E payload \in SnapPayloads, now \in Times : FromSnapshot(payload, now)
  \/ \E i \in 1..Len(items) : MarkSuccess(i)
  \/ \E i \in 1..Len(items) : MarkFailure(i, eX)
  \/ \E i \in 1..Len(items), t \in Times : Defer(i, t)
  \/ \E i \in 1..Len(items), call \in OutcomeCalls : RecordOutcome(i, call[1], call[2])

-----------------------------------------------------------------------------
(* Inputs of the worker specification *)

sEmail == <<"h", "r", "@", "a", ".", "c", "o">>

jobE == Posting(<<"j", "3">>, tDev, cAcmeUpper, NoUrl, sEmail)
jobM == Posting(None, tDevSpaced, cAcme, Url(sMailto, << >>, sEmail, << >>), None)

\* The queues found in the store when the worker starts: pending tasks that
\* apply through the browser, by contact email and by a mailto link.
WorkerQueues ==
  { <<NewTask(jobA, 0, << >>), NewTask(jobE, 0, << >>)>>,
    <<NewTask(jobM, 1, << >>), NewTask(jobA, 0, << >>)>> }

\* The mark-outcome commands issued: for a queued job and for an unknown id.
CliJobIds == {<<"j", "1">>, <<"z">>}
CliOutcomes == {<<"R", "e", "j", "e", "c", "t", "e", "d">>, <<"O", "F", "F", "E", "R">>}

-----------------------------------------------------------------------------
(* Worker and CLI actions *)

\* JobAutomationWorker(...): the collaborators the worker is built with.
Worker(has_ai, has_email) == [has_ai |-> has_ai, has_email |-> has_email]

WorkerSetups == {Worker(FALSE, TRUE), Worker(TRUE, FALSE)}

IdleCfg == [now |-> 0, dry_run |-> FALSE, has_ai |-> FALSE, has_email |-> FALSE]

NoRun ==
  [kind |-> "none", now |-> 0, dry_run |-> FALSE, due |-> << >>, before |-> << >>,
   handled |-> << >>, end |-> "none", jid |-> None]

WorkerIdle ==
  /\ wPc = "idle"
  /\ wCfg = IdleCfg
  /\ wDue = << >>
  /\ wPos = 0
  /\ runs = 0
  /\ clock = 0
  /\ passLog = NoRun
  /\ sentLog = << >>

\* The process ends: its queue and registry objects are gone.
Forget ==
  /\ items' = << >>
  /\ records' = EmptyMap
  /\ aliases' = EmptyMap
  /\ wPc' = "idle"
  /\ wCfg' = IdleCfg
  /\ wDue' = << >>
  /\ wPos' = 0

\* run_once(dry_run), lines 51-58: load the state and compute due; return at
\* once, without saving, when nothing is due.
StartPass(now, dry_run) ==
  /\ wPc = "idle"
  /\ runs < MaxRuns
  /\ now >= clock
  /\ runs' = runs + 1
  /\ clock' = now
  /\ LET state == load(disk, now)
         d == due(state.queue, now)
         log == [kind |-> "pass", now |-> now, dry_run |-> dry_run, due |-> d,
                 before |-> state.queue, handled |-> << >>, end |-> "running",
                 jid |-> None]
     IN IF d = << >>
          THEN /\ passLog' = [log EXCEPT !.end = "nothing_due"]
               /\ UNCHANGED <<items, records, aliases, wPc, wCfg, wDue, wPos>>
          ELSE /\ passLog' = log
               /\ items' = state.queue
               /\ records' = state.history.records
               /\ aliases' = state.history.aliases
               /\ wPc' = "running"
               /\ wCfg' = [now |-> now, dry_run |-> dry_run, has_ai |-> worker.has_ai,
                           has_email |-> worker.has_email]
               /\ wDue' = d
               /\ wPos' = 1
  /\ UNCHANGED <<disk, worker, sentLog, regLog, qLog, extVars>>

\* What run_once does with the result r of the attempt on task i: on to the
\* next task of due, or, after the last one, the save of line 130.
Sent(log, task, result) ==
  IF result = "applied" THEN Append(log, job_id(task)) ELSE log

Continue(i, r) ==
  IF wPos < Len(wDue)
    THEN /\ passLog' = [passLog EXCEPT !.handled = Append(@, <<i, r.result>>)]
         /\ sentLog' = Sent(sentLog, r.task, r.result)
         /\ items' = [items EXCEPT ![i] = r.task]
         /\ records' = r.records
         /\ aliases' = r.aliases
         /\ wPos' = wPos + 1
         /\ UNCHANGED <<disk, wPc, wCfg, wDue>>
    ELSE /\ passLog' = [passLog EXCEPT !.handled = Append(@, <<i, r.result>>),
                                       !.end = "saved"]
         /\ sentLog' = Sent(sentLog, r.task, r.result)
         /\ disk' = save([items EXCEPT ![i] = r.task], r.records, r.aliases)
         /\ Forget

\* One iteration of the loop of run_once, lines 60-128, for the next task of
\* due.  An exception out of analyse_job_fit or _ensure_documents (lines
\* 62-65, outside the try) ends run_once before the save.
HandleTask(o) ==
  /\ wPc = "running"
  /\ Distinct(items[wDue[wPos]], wCfg, o)
  /\ IF ~Prepared(o)
       THEN /\ passLog' = [passLog EXCEPT !.handled = Append(@, <<wDue[wPos], "raised">>),
                                          !.end = "raised"]
            /\ Forget
            /\ UNCHANGED <<disk, sentLog>>
       ELSE Continue(wDue[wPos],
                     Attempt(_ensure_documents(items[wDue[wPos]], o.docs),
                             records, aliases, wCfg, o))
  /\ UNCHANGED <<worker, runs, clock, regLog, qLog, extVars>>

\* cmd_record_outcome: mark-outcome for a queue id.  credit_fails: crediting a
\* skill raises (inventory.ensure on a blank skill name), before the save.
CliRecordOutcome(jid, outcome, note, credit_fails) ==
  /\ runs < MaxRuns
  /\ credit_fails => Lower(outcome) \in {<<"i", "n", "t", "e", "r", "v", "i", "e", "w">>,
                                         <<"o", "f", "f", "e", "r">>}
  /\ runs' = runs + 1
  /\ LET state == load(disk, clock)
         i == get(state.queue, jid)
         log == [kind |-> "cli", now |-> clock, dry_run |-> FALSE, due |-> << >>,
                 before |-> state.queue, handled |-> << >>, end |-> "exit", jid |-> jid]
     IN IF i = 0
          THEN /\ passLog' = log
               /\ UNCHANGED disk
          ELSE LET task == record_outcome(state.queue[i], outcome, note)
                   reg == record(state.history.records, state.history.aliases,
                                 task.posting, task.status)
               IN IF credit_fails
                    THEN /\ passLog' = [log EXCEPT !.handled = <<(<<i, "raised">>)>>,
                                                   !.end = "raised"]
                         /\ UNCHANGED disk
                    ELSE /\ passLog' = [log EXCEPT !.handled = <<(<<i, "outcome">>)>>,
                                                   !.end = "saved"]
                         /\ disk' = save([state.queue EXCEPT ![i] = task],
                                         reg.records, reg.aliases)
  /\ UNCHANGED <<items, records, aliases, worker, wPc, wCfg, wDue, wPos, clock, sentLog,
                 regLog, qLog, extVars>>

\* cmd_apply for a queued task, lines 527-617: the email branch, the mailto
\* guard and the browser automation; the task, the registry and what happened.
ApplyQueued(task, recs, al, cfg, o) ==
  LET same(t, result) == [task |-> t, records |-> recs, aliases |-> al, result |-> result]
      mailto == ~UrlFalsy(task.posting.apply_url) /\ task.posting.apply_url.scheme = sMailto
      recorded(t, status) ==
        [task |-> t, records |-> record(recs, al, t.posting, status).records,
         aliases |-> record(recs, al, t.posting, status).aliases, result |-> "applied"]
  IN IF email_target(task.posting) /\ cfg.has_email /\ o.email = "raise"
       THEN same(Requeued(task, o.msg, cfg.now), "failed")
     ELSE IF email_target(task.posting) /\ cfg.has_email /\ cfg.dry_run
       THEN same(defer([task EXCEPT !.notes = Append(@, Note("dry_run_email", << >>))],
                       cfg.now + RetryDelay), "dry_run")
     ELSE IF email_target(task.posting) /\ cfg.has_email /\ o.email = "sent"
       THEN recorded(mark_success(task), sApplied)
     ELSE IF /\ email_target(task.posting) /\ ~cfg.has_email
             /\ (UrlFalsy(task.posting.apply_url) \/ mailto)
       THEN same([defer(task, cfg.now + RetryDelay)
                    EXCEPT !.notes = Append(@, Note("smtp_missing", << >>))], "deferred")
     ELSE IF mailto
       THEN same(defer(task, cfg.now + RetryDelay), "deferred")
     ELSE IF o.browser = "submitted" /\ cfg.dry_run
       THEN same([task EXCEPT !.notes = Append(@, Note("dry_run", << >>))], "dry_run")
     ELSE IF o.browser = "submitted"
       THEN recorded(mark_success(task), mark_success(task).status)
     ELSE IF o.browser = "no_button"
       THEN same(Requeued(task, <<"No submit button detected">>, cfg.now), "failed")
     ELSE same(Requeued(task, o.msg, cfg.now), "failed")

\* The collaborator behaviours cmd_apply can tell apart: fit analysis raising
\* or not, and, when the command gets as far as the submission, the email
\* sender's and the browser automation's outcomes.
ApplyOutcomes(queue, i) ==
  IF i = 0 THEN {Collab("ok", "ok", "sent", "submitted", eX)}
  ELSE IF find_matching(queue, queue[i].posting).raised
    THEN {Collab(fit, "ok", "sent", "submitted", eX) : fit \in {"ok", "raise"}}
  ELSE {Collab(fit, "ok", email, browser, eX) :
          fit \in {"ok", "raise"}, email \in EmailOutcomes, browser \in BrowserOutcomes}

\* The end of cmd_apply: the log of the command, and, unless it ended in an
\* exception or SystemExit, save_and_exit with the task in its place.
ApplyLog(jid, dry_run, before, handled, end) ==
  [kind |-> "apply", now |-> clock, dry_run |-> dry_run, due |-> << >>,
   before |-> before, handled |-> handled, end |-> end, jid |-> jid]

ApplySaved(jid, dry_run, state, i, r) ==
  /\ passLog' = ApplyLog(jid, dry_run, state.queue, <<(<<i, r.result>>)>>, "saved")
  /\ sentLog' = Sent(sentLog, r.task, r.result)
  /\ disk' = save([state.queue EXCEPT ![i] = r.task], r.records, r.aliases)

ApplyLoaded(jid, dry_run, state, i, o) ==
  IF i = 0
    THEN /\ passLog' = ApplyLog(jid, dry_run, state.queue, << >>, "exit")
         /\ UNCHANGED <<disk, sentLog>>
  ELSE IF o.fit = "raise" \/ find_matching(state.queue, state.queue[i].posting).raised
    THEN /\ passLog' = ApplyLog(jid, dry_run, state.queue, <<(<<i, "raised">>)>>, "raised")
         /\ UNCHANGED <<disk, sentLog>>
  ELSE ApplySaved(jid, dry_run, state, i,
                  ApplyQueued(state.queue[i], state.history.records, state.history.aliases,
                              [now |-> clock, dry_run |-> dry_run, has_ai |-> worker.has_ai,
                               has_email |-> worker.has_email], o))

\* cmd_apply --queue-id jid: load, find the task, analyse, warn about
\* duplicates (find_matching, history.find), submit, save.
CliApply(jid, dry_run, o) ==
  /\ runs < MaxRuns
  /\ runs' = runs + 1
  /\ ApplyLoaded(jid, dry_run, load(disk, clock), get(load(disk, clock).queue, jid), o)
  /\ UNCHANGED <<items, records, aliases, worker, wPc, wCfg, wDue, wPos, clock,
                 regLog, qLog, extVars>>

\* Most CLI commands that save during one worker pass.
MaxCliSaves == 1

\* The save of cmd_record_outcome, and the note of it: the job, the status the
\* command stored, and the number of the worker pass that was running.
OutcomeSaved(jid, state, i, task, reg) ==
  /\ disk' = save([state.queue EXCEPT ![i] = task], reg.records, reg.aliases)
  /\ cliLog' = Append(cliLog, [jid |-> jid, status |-> task.status, run |-> runs])

OutcomeLoaded(jid, outcome, state, i) ==
  /\ i # 0
  /\ OutcomeSaved(jid, state, i, record_outcome(state.queue[i], outcome, None),
                  record(state.history.records, state.history.aliases,
                         state.queue[i].posting,
                         record_outcome(state.queue[i], outcome, None).status))

\* cmd_record_outcome run from another process while the worker is inside
\* run_once, between its load (line 52) and its save (line 130): the command
\* loads the file, marks the task, records it and saves.  A command for an
\* unknown queue id exits with nothing changed.
CliRecordOutcomeMeanwhile(jid, outcome) ==
  /\ wPc = "running"
  /\ Len(cliLog) < MaxCliSaves
  /\ OutcomeLoaded(jid, outcome, load(disk, clock), get(load(disk, clock).queue, jid))
  /\ UNCHANGED <<regVars, queueVars, worker, wPc, wCfg, wDue, wPos, runs, clock, passLog,
                 sentLog, jobPosting, matchLog, keysLog, storeFile, spc, stLog, plan,
                 skills, skLog>>

\* A worker and a CLI user sharing one store file.
SharedNext ==
  \/ \E now \in Times, dry_run \in BOOLEAN : StartPass(now, dry_run)
  \/ \E o \in CollabOutcomes : HandleTask(o)
  \/ \E jid \in CliJobIds, outcome \in CliOutcomes : CliRecordOutcomeMeanwhile(jid, outcome)

WorkerNext ==
  \/ \E now \in Times, dry_run \in BOOLEAN : StartPass(now, dry_run)
  \/ \E o \in CollabOutcomes : HandleTask(o)
  \/ \E jid \in CliJobIds, outcome \in CliOutcomes, credit_fails \in BOOLEAN :
       wPc = "idle" /\ CliRecordOutcome(jid, outcome, None, credit_fails)
  \/ /\ wPc = "idle"
     /\ \E jid \in CliJobIds, dry_run \in BOOLEAN :
          \E o \in ApplyOutcomes(load(disk, clock).queue,
                                 get(load(disk, clock).queue, jid)) :
            CliApply(jid, dry_run, o)

\* The store files the worker starts from: the ones save() wrote for these
\* queues, and one of them with the apply_at of its first entry edited into
\* something that is not a timestamp.
WorkerStores ==
  {save(q, EmptyMap, EmptyMap) : q \in WorkerQueues}
    \cup {[save(q, EmptyMap, EmptyMap) EXCEPT !.queue[1].apply_at = BadTime] :
            q \in {<<NewTask(jobA, 0, << >>), NewTask(jobE, 0, << >>)>>}}

-----------------------------------------------------------------------------
(* Skills inventory: skills_inventory.py *)

\* Longest sequence of inventory calls explored.
MaxSkillOps == 3

\* The characters of the skill names, in code point order: Python compares
\* strings by code point.
CodePoints ==
  <<" ", "G", "O", "P", "Y", "g", "o", "p", "y">>

CodePoint(c) == CHOOSE i \in 1..Len(CodePoints) : CodePoints[i] = c

\* a < b on str
RECURSIVE TextLess(_, _)
TextLess(a, b) ==
  IF b = << >> THEN FALSE
  ELSE IF a = << >> THEN TRUE
  ELSE IF Head(a) = Head(b) THEN TextLess(Tail(a), Tail(b))
  ELSE CodePoint(Head(a)) < CodePoint(Head(b))

SkillRecord(key, name) ==
  [key |-> key, name |-> name, occurrences |-> 0, interviews |-> 0, offers |-> 0]

\* The position of key in _skills, or 0.
RECURSIVE SkillFrom(_, _, _)
SkillFrom(sk, key, i) ==
  IF i > Len(sk) THEN 0
  ELSE IF sk[i].key = key THEN i
  ELSE SkillFrom(sk, key, i + 1)

SkillAt(sk, key) == SkillFrom(sk, key, 1)

\* ensure(skill_name): ValueError on a blank name, else the inventory with
\* the record in it and the record's position.
ensure(sk, skill_name) ==
  LET key == Strip(Lower(skill_name))
  IN IF key = << >> THEN [raises |-> TRUE, skills |-> sk, at |-> 0]
     ELSE IF SkillAt(sk, key) = 0
       THEN [raises |-> FALSE,
             skills |-> Append(sk, SkillRecord(key, Strip(skill_name))),
             at |-> Len(sk) + 1]
     ELSE [raises |-> FALSE, skills |-> sk, at |-> SkillAt(sk, key)]

\* record_interview(skill_name)
record_interview_observes(sk, skill_name) ==
  LET e == ensure(sk, skill_name)
  IN IF e.raises THEN e
     ELSE [e EXCEPT !.skills[e.at].interviews = @ + 1,
                    !.skills[e.at].occurrences = @ + 1]

record_interview(sk, skill_name) ==
  LET e == ensure(sk, skill_name)
  IN IF e.raises THEN e
     ELSE [e EXCEPT !.skills[e.at].interviews = @ + 1]

\* record_offer(skill_name)
record_offer(sk, skill_name) ==
  LET e == ensure(sk, skill_name)
  IN IF e.raises THEN e
     ELSE [e EXCEPT !.skills[e.at].offers = @ + 1]

\* [skill.strip() for skill in skills if skill and skill.strip()]
RECURSIVE Cleaned(_)
Cleaned(batch) ==
  IF batch = << >> THEN << >>
  ELSE (IF Truthy(Head(batch)) /\ Strip(Head(batch)) # << >>
          THEN <<Strip(Head(batch))>> ELSE << >>)
       \o Cleaned(Tail(batch))

\* How many elements of cleaned lower-case to key.
RECURSIVE CountOf(_, _)
CountOf(cleaned, key) ==
  IF cleaned = << >> THEN 0
  ELSE (IF Lower(Head(cleaned)) = key THEN 1 ELSE 0) + CountOf(Tail(cleaned), key)

\* next(skill for skill in cleaned if skill.lower() == key)
RECURSIVE FirstOf(_, _)
FirstOf(cleaned, key) ==
  IF Lower(Head(cleaned)) = key THEN Head(cleaned) ELSE FirstOf(Tail(cleaned), key)

\* The keys of Counter(skill.lower() for skill in cleaned), in the order the
\* counter holds them: first occurrence.
RECURSIVE CounterKeys(_, _)
CounterKeys(cleaned, seen) ==
  IF cleaned = << >> THEN seen
  ELSE CounterKeys(Tail(cleaned),
                   IF \E i \in 1..Len(seen) : seen[i] = Lower(Head(cleaned))
                     THEN seen ELSE Append(seen, Lower(Head(cleaned))))

\* register_observation(count): the occurrences of a record.
register_observation_once(rec, count) == [rec EXCEPT !.occurrences = @ + 1]

register_observation(rec, count) == [rec EXCEPT !.occurrences = @ + count]

\* The loop of observe_skills over counts.items().
RECURSIVE ObserveKeys(_, _, _)
ObserveKeys(sk, keys, cleaned) ==
  IF keys = << >> THEN sk
  ELSE LET key == Head(keys)
           present == IF SkillAt(sk, key) = 0
                     THEN Append(sk, SkillRecord(key, FirstOf(cleaned, key)))
                     ELSE sk
           at == SkillAt(present, key)
       IN ObserveKeys([present EXCEPT ![at] = register_observation(@, CountOf(cleaned, key))],
                      Tail(keys), cleaned)

\* observe_skills(skills)
observe_skills(sk, batch) ==
  ObserveKeys(sk, CounterKeys(Cleaned(batch), << >>), Cleaned(batch))

\* The sort key of sorted_by_opportunity, compared as Python compares tuples.
OpportunityLess_byOccurrences(a, b) == a.occurrences > b.occurrences

OpportunityLess(a, b) ==
  LET ga == 0 - (a.occurrences - a.interviews - a.offers)
      gb == 0 - (b.occurrences - b.interviews - b.offers)
  IN \/ ga < gb
     \/ ga = gb /\ 0 - a.occurrences < 0 - b.occurrences
     \/ ga = gb /\ a.occurrences = b.occurrences /\ TextLess(Lower(a.name), Lower(b.name))

\* sorted(): a stable insertion of rec into the sorted sequence out.
RECURSIVE InsertByOpportunity(_, _)
InsertByOpportunity(out, rec) ==
  IF out = << >> THEN <<rec>>
  ELSE IF OpportunityLess(rec, Head(out)) THEN <<rec>> \o out
  ELSE <<Head(out)>> \o InsertByOpportunity(Tail(out), rec)

RECURSIVE SortedByOpportunity(_, _)
SortedByOpportunity(sk, out) ==
  IF sk = << >> THEN out
  ELSE SortedByOpportunity(Tail(sk), InsertByOpportunity(out, Head(sk)))

\* sorted_by_opportunity()
sorted_by_opportunity(sk) == SortedByOpportunity(sk, << >>)

\* The skill names passed in: casings and paddings of two skills, and blanks.
kPy == <<"P", "y">>
kPyLower == <<"p", "y">>
kPyPadded == <<" ", "P", "Y", " ">>
kGo == <<"g", "o">>
kGoUpper == <<"G", "O">>
kBlank == <<" ">>

\* The names record_interview and record_offer are called with.
SkillNames == {kPyPadded, kGoUpper, kBlank}

\* The lists observe_skills is called with: empty, with blanks, with one skill
\* in several casings, with two skills, with repeats.
Batches ==
  { << >>,
    <<kBlank, kPy, << >>>>,
    <<kPyPadded, kPyLower>>,
    <<kPy, kGo>>,
    <<kGo, kPy, kGoUpper>>,
    <<kGoUpper>> }

SkillsIdle ==
  /\ skills = << >>
  /\ skLog = << >>

\* inventory.observe_skills(batch)
ObserveSkills(batch) ==
  /\ Len(skLog) < MaxSkillOps
  /\ skills' = observe_skills(skills, batch)
  /\ skLog' = Append(skLog, [op |-> "observe", names |-> batch, raised |-> FALSE])
  /\ UNCHANGED <<regVars, queueVars, workerVars, jobPosting, matchLog, keysLog, cliLog, storeVars, plan>>

\* inventory.record_interview(name)
RecordInterview(name) ==
  /\ Len(skLog) < MaxSkillOps
  /\ skills' = record_interview(skills, name).skills
  /\ skLog' = Append(skLog, [op |-> "interview", names |-> <<name>>,
                             raised |-> record_interview(skills, name).raises])
  /\ UNCHANGED <<regVars, queueVars, workerVars, jobPosting, matchLog, keysLog, cliLog, storeVars, plan>>

\* inventory.record_offer(name)
RecordOffer(name) ==
  /\ Len(skLog) < MaxSkillOps
  /\ skills' = record_offer(skills, name).skills
  /\ skLog' = Append(skLog, [op |-> "offer", names |-> <<name>>,
                             raised |-> record_offer(skills, name).raises])
  /\ UNCHANGED <<regVars, queueVars, workerVars, jobPosting, matchLog, keysLog, cliLog, storeVars, plan>>

SkillsNext ==
  \/ \E batch \in Batches : ObserveSkills(batch)
  \/ \E name \in SkillNames : RecordInterview(name)
  \/ \E name \in SkillNames : RecordOffer(name)

-----------------------------------------------------------------------------
(* Scheduler: scheduler.py.  Times and durations are whole minutes. *)

\* Most jobs in one plan_schedule call.
MaxJobs == 6

\* str(job.get("id"))
StrOf(id) == IF id = None THEN <<"N", "o", "n", "e">> ELSE id

ScheduledApplication(job, apply_at) ==
  [job_id |-> StrOf(job.id), job_title |-> job.title, company |-> job.company,
   apply_at |-> apply_at]

\* The loop of plan_schedule, lines 44-55, from the job at position index on.
RECURSIVE PlanFrom_nobreak(_, _, _, _, _, _)
PlanFrom_nobreak(jobs, index, current_time, interval, break_every, break_duration) ==
  IF index > Len(jobs) THEN << >>
  ELSE <<ScheduledApplication(jobs[index], current_time)>>
       \o PlanFrom_nobreak(jobs, index + 1, current_time + interval,
                           interval, break_every, break_duration)

RECURSIVE PlanFrom(_, _, _, _, _, _)
PlanFrom(jobs, index, current_time, interval, break_every, break_duration) ==
  IF index > Len(jobs) THEN << >>
  ELSE <<ScheduledApplication(jobs[index], current_time)>>
       \o PlanFrom(jobs, index + 1,
                   current_time + interval
                     + (IF index % break_every = 0 THEN break_duration ELSE 0),
                   interval, break_every, break_duration)

\* plan_schedule(jobs, start=, min_interval_minutes=, break_every=, break_duration=)
plan_schedule_clamps(jobs, start, min_interval_minutes, break_every, break_duration) ==
  [raises |-> FALSE,
   schedule |-> PlanFrom(jobs, 1, start,
                         IF min_interval_minutes <= 0 THEN 1 ELSE min_interval_minutes,
                         IF break_every <= 0 THEN 1 ELSE break_every, break_duration)]

plan_schedule(jobs, start, min_interval_minutes, break_every, break_duration) ==
  IF min_interval_minutes <= 0 \/ break_every <= 0
    THEN [raises |-> TRUE, schedule |-> << >>]
    ELSE [raises |-> FALSE,
          schedule |-> PlanFrom(jobs, 1, start, min_interval_minutes, break_every,
                                break_duration)]

\* The arguments plan_schedule is called with.
jobIds == <<(<<"1">>), None, <<"3">>, <<"4">>, <<"5">>, <<"6">>, <<"7">>, <<"8">>>>

Job(k) ==
  [id |-> jobIds[((k - 1) % Len(jobIds)) + 1],
   title |-> IF k % 2 = 1 THEN tDev ELSE tDevSpaced, company |-> cAcme]

JobLists == {[k \in 1..n |-> Job(k)] : n \in 0..MaxJobs}

Starts == {0, 7}
Intervals == {0 - 1, 0, 1, 2, 10}
BreakEverys == {0 - 1, 0, 1, 2, 5}
BreakDurations == {0 - 3, 0 - 1, 0, 1, 30}

NoPlan ==
  [called |-> FALSE, jobs |-> << >>, start |-> 0, min_interval_minutes |-> 1,
   break_every |-> 1, break_duration |-> 0, raises |-> FALSE, schedule |-> << >>]

\* schedule = plan_schedule(jobs, ...).  The function keeps no state between
\* calls, so one call is explored from the start.
PlanSchedule(jobs, start, min_interval_minutes, break_every, break_duration) ==
  /\ ~plan.called
  /\ LET r == plan_schedule(jobs, start, min_interval_minutes, break_every,
                            break_duration)
     IN plan' = [called |-> TRUE, jobs |-> jobs, start |-> start,
                 min_interval_minutes |-> min_interval_minutes,
                 break_every |-> break_every, break_duration |-> break_duration,
                 raises |-> r.raises, schedule |-> r.schedule]
  /\ UNCHANGED <<regVars, queueVars, workerVars, jobPosting, matchLog, keysLog, cliLog, storeVars, skillVars>>

ScheduleNext ==
  \E jobs \in JobLists, start \in Starts, min_interval_minutes \in Intervals,
     break_every \in BreakEverys, break_duration \in BreakDurations :
    PlanSchedule(jobs, start, min_interval_minutes, break_every, break_duration)

-----------------------------------------------------------------------------
(* Store: storage.py, with the file and a process inside save *)

\* Longest sequence of Storage calls explored, and the most tasks queued
\* between them.
MaxStoreOps == 4

MaxStoreAdds == 2

\* The file at Storage.path: "missing", "corrupt" (not a JSON document),
\* "truncated" (opened for writing, the text not yet or not wholly written)
\* or "doc" with the document.
StoreFile(kind, doc) == [kind |-> kind, doc |-> doc]

\* SkillsInventory.to_snapshot(): key -> the record's dictionary.
skills_to_snapshot(sk) ==
  [k \in {sk[i].key : i \in 1..Len(sk)} |->
     LET rec == sk[SkillAt(sk, k)]
     IN [name |-> rec.name, occurrences |-> rec.occurrences,
         interviews |-> rec.interviews, offers |-> rec.offers]]

\* The profile the callers hold (load_or_init's default), as to_dict writes it.
TheProfile == [name |-> sUnknown]

NoDoc ==
  [profile |-> None, skills |-> EmptyMap, queue |-> << >>,
   history |-> [records |-> {}, aliases |-> EmptyMap]]

MissingFile == StoreFile("missing", NoDoc)
CorruptFile == StoreFile("corrupt", NoDoc)
TruncatedFile == StoreFile("truncated", NoDoc)

\* Storage.save(profile, skills, queue, history): the document json.dumps
\* builds, or the exception out of to_snapshot.
Storage_save_queue_only(its, recs, al, sk) ==
  [raises |-> \E k \in 1..Len(its) : to_dict_raises(its[k]),
   doc |-> [profile |-> TheProfile, skills |-> skills_to_snapshot(sk),
            queue |-> save(its, recs, al).queue,
            history |-> registry_to_snapshot(EmptyMap, EmptyMap)]]

Storage_save(its, recs, al, sk) ==
  [raises |-> \E k \in 1..Len(its) : to_dict_raises(its[k]),
   doc |-> [profile |-> TheProfile, skills |-> skills_to_snapshot(sk),
            queue |-> save(its, recs, al).queue,
            history |-> save(its, recs, al).history]]

EmptyLoad(raised) ==
  [raised |-> raised, profile |-> None, skills |-> None, queue |-> << >>,
   history |-> [records |-> EmptyMap, aliases |-> EmptyMap]]

\* Storage.load() at time now: what it returns, or that it raised (json.loads
\* on a file that is not a document).
Storage_load_noexists(f, now) ==
  IF f.kind # "doc" THEN EmptyLoad(TRUE)
  ELSE [raised |-> FALSE,
        profile |-> f.doc.profile,
        skills |-> IF DOMAIN f.doc.skills = {} THEN None ELSE f.doc.skills,
        queue |-> load(f.doc, now).queue,
        history |-> load(f.doc, now).history]

Storage_load(f, now) ==
  IF f.kind = "missing" THEN EmptyLoad(FALSE)
  ELSE IF f.kind # "doc" THEN EmptyLoad(TRUE)
  ELSE [raised |-> FALSE,
        profile |-> f.doc.profile,
        skills |-> IF DOMAIN f.doc.skills = {} THEN None ELSE f.doc.skills,
        queue |-> load(f.doc, now).queue,
        history |-> load(f.doc, now).history]

\* The tasks queued and the postings recorded before a save.
StoreTasks ==
  { QueuedApplication(jobA, 2, sPending, <<Note("text", <<"m">>)>>, 2, eY),
    NewTask(jobE, 1, << >>) }

StorePostings == {jobA, jobB}

\* The clock readings at which load() runs.
StoreClock == {MaxTime}

\* The files found at start: none, one that is not a document, and a document
\* written earlier whose second entry has no usable apply_at.
StoreFiles ==
  { MissingFile, CorruptFile,
    StoreFile("doc",
              [Storage_save(<<NewTask(jobA, 1, << >>), NewTask(jobB, 0, << >>)>>,
                            EmptyMap, EmptyMap, << >>).doc
                 EXCEPT !.queue[2].apply_at = BadTime]) }

IdleProc == [pc |-> "idle", buf |-> NoDoc]

NoSaved ==
  [done |-> FALSE, items |-> << >>, records |-> EmptyMap, aliases |-> EmptyMap,
   skills |-> << >>, recorded |-> {}, doc |-> NoDoc]

NoStoreCall ==
  [op |-> "none", n |-> 0, result |-> EmptyLoad(FALSE), read |-> MissingFile,
   saved |-> NoSaved, broken |-> FALSE]

StoreIdle ==
  /\ storeFile = MissingFile
  /\ spc = IdleProc
  /\ stLog = NoStoreCall

\* profile, inventory, queue, history = storage.load(): the process holds what
\* was loaded.
StoreLoad(now) ==
  /\ spc.pc = "idle"
  /\ stLog.n < MaxStoreOps
  /\ LET r == Storage_load(storeFile, now)
     IN /\ stLog' = [stLog EXCEPT !.op = "load", !.n = @ + 1, !.result = r,
                                  !.read = storeFile]
        /\ IF r.raised
             THEN UNCHANGED <<items, records, aliases>>
             ELSE /\ items' = r.queue
                  /\ records' = r.history.records
                  /\ aliases' = r.history.aliases
  /\ UNCHANGED <<regLog, qLog, workerVars, jobPosting, matchLog, keysLog, cliLog, storeFile, spc, plan, skillVars>>

\* storage.save(...), up to the opening of the file: the document is built
\* (line 52-58, json.dumps) and write_text opens the file, which empties it.
StoreSaveOpen ==
  /\ spc.pc = "idle"
  /\ stLog.n < MaxStoreOps
  /\ LET w == Storage_save(items, records, aliases, skills)
     IN IF w.raises
          THEN /\ stLog' = [stLog EXCEPT !.op = "save_raised", !.n = @ + 1]
               /\ UNCHANGED <<storeFile, spc>>
          ELSE /\ stLog' = [stLog EXCEPT !.op = "save_open", !.n = @ + 1]
               /\ storeFile' = TruncatedFile
               /\ spc' = [pc |-> "writing", buf |-> w.doc]
  /\ UNCHANGED <<regVars, queueVars, workerVars, jobPosting, matchLog, keysLog, cliLog, plan, skillVars>>

\* storage.save(...), the rest of write_text: the text is written and the
\* file closed.
StoreSaveWrite ==
  /\ spc.pc = "writing"
  /\ storeFile' = StoreFile("doc", spc.buf)
  /\ spc' = IdleProc
  /\ stLog' = [stLog EXCEPT !.op = "save", !.broken = FALSE,
                            !.saved = [done |-> TRUE, items |-> items,
                                       records |-> records, aliases |-> aliases,
                                       skills |-> skills,
                                       recorded |-> {regLog[i].p : i \in 1..Len(regLog)},
                                       doc |-> spc.buf]]
  /\ UNCHANGED <<regVars, queueVars, workerVars, jobPosting, matchLog, keysLog, cliLog, plan, skillVars>>

\* The process is killed inside write_text.
Interrupt ==
  /\ spc.pc = "writing"
  /\ spc' = IdleProc
  /\ stLog' = [stLog EXCEPT !.op = "interrupted", !.broken = TRUE]
  /\ UNCHANGED <<regVars, queueVars, workerVars, jobPosting, matchLog, keysLog, cliLog, storeFile, plan, skillVars>>

StoreNext ==
  \/ \E now \in StoreClock : StoreLoad(now)
  \/ StoreSaveOpen
  \/ StoreSaveWrite
  \/ Interrupt
  \/ \E task \in StoreTasks : spc.pc = "idle" /\ Len(qLog) < MaxStoreAdds /\ Add(task)
  \/ \E p \in StorePostings : spc.pc = "idle" /\ regLog = << >> /\ Record(p, sApplied)

\* The process starts with nothing loaded; JobPosting is the class of
\* job_matching.py.
StoreInit ==
  /\ RegInit
  /\ QueueInit
  /\ WorkerIdle
  /\ worker = Worker(FALSE, FALSE)
  /\ disk = EmptyStore
  /\ jobPosting = JobPostingFields
  /\ matchLog = NoMatchCall
  /\ keysLog = NoKeysCall
  /\ cliLog = << >>
  /\ storeFile \in StoreFiles
  /\ spc = IdleProc
  /\ stLog = NoStoreCall
  /\ plan = NoPlan
  /\ SkillsIdle

-----------------------------------------------------------------------------
(* record-outcome on the whole store: cli.py, cmd_record_outcome *)

\* SkillsInventory.from_snapshot(snapshot): the records in the order of the
\* file's keys, which json.dumps(sort_keys=True) wrote in ascending order.
RECURSIVE SkillsFromKeys(_, _)
SkillsFromKeys(snapshot, keys) ==
  IF keys = {} THEN << >>
  ELSE LET key == CHOOSE k \in keys : \A other \in keys \ {k} : TextLess(k, other)
       IN <<[key |-> key, name |-> snapshot[key].name,
             occurrences |-> snapshot[key].occurrences,
             interviews |-> snapshot[key].interviews,
             offers |-> snapshot[key].offers]>>
            \o SkillsFromKeys(snapshot, keys \ {key})

skills_from_snapshot(snapshot) == SkillsFromKeys(snapshot, DOMAIN snapshot)

sInterview == <<"i", "n", "t", "e", "r", "v", "i", "e", "w">>
sOffer == <<"o", "f", "f", "e", "r">>
sRejected == <<"r", "e", "j", "e", "c", "t", "e", "d">>

\* cmd_record_outcome, lines 630-636: the loop that credits the target skills,
\* from position k on; it stops at the first skill name that raises.
RECURSIVE CreditFrom_once(_, _, _, _)
CreditFrom_once(sk, target, k, outcome) ==
  IF k > Len(target) \/ Lower(outcome) \notin {sInterview, sOffer}
    THEN [raises |-> FALSE, skills |-> sk, at |-> 0]
  ELSE LET e == IF Lower(outcome) = sInterview THEN record_interview(sk, target[k])
                ELSE record_offer(sk, target[k])
       IN IF e.raises THEN e
          ELSE IF \E j \in 1..(k - 1) : Strip(Lower(target[j])) = Strip(Lower(target[k]))
            THEN CreditFrom_once(sk, target, k + 1, outcome)
          ELSE CreditFrom_once(e.skills, target, k + 1, outcome)

RECURSIVE CreditFrom(_, _, _, _)
CreditFrom(sk, target, k, outcome) ==
  IF k > Len(target) \/ Lower(outcome) \notin {sInterview, sOffer}
    THEN [raises |-> FALSE, skills |-> sk, at |-> 0]
  ELSE LET e == IF Lower(outcome) = sInterview THEN record_interview(sk, target[k])
                ELSE record_offer(sk, target[k])
       IN IF e.raises THEN e
          ELSE CreditFrom(e.skills, target, k + 1, outcome)

\* The skills a stored inventory starts with: "py" seen twice, one interview.
StoredSkills ==
  <<[SkillRecord(kPyLower, kPy) EXCEPT !.occurrences = 2, !.interviews = 1]>>

\* The store files record-outcome finds: none, one that is not a document,
\* and a document with two queued jobs, one of them recorded as applied.
OutcomeFiles ==
  { MissingFile, CorruptFile,
    StoreFile("doc",
              Storage_save(<<NewTask(jobA, 1, << >>), mark_success(NewTask(jobE, 0, << >>))>>,
                           record(EmptyMap, EmptyMap, jobE, sApplied).records,
                           record(EmptyMap, EmptyMap, jobE, sApplied).aliases,
                           StoredSkills).doc) }

\* --queue-id, --outcome and the target skills (--skills, or the posting's
\* tags): none, one, two, one named twice, one after which a blank follows.
OutcomeJobIds == {<<"j", "1">>, <<"j", "3">>, <<"z">>}
OutcomeChoices == {sInterview, sOffer, sRejected}
TargetSkills ==
  { << >>, <<kPy>>, <<kGoUpper, kPyPadded>>, <<kPy, kPyLower>>, <<kGo, kBlank>> }

\* cmd_record_outcome: load, record the outcome on the task and in the
\* registry, credit the skills, save.
CliMarkOutcome(jid, outcome, note, target) ==
  /\ runs < MaxRuns
  /\ runs' = runs + 1
  /\ LET loaded == Storage_load(storeFile, clock)
         inventory == IF storeFile.kind = "doc"
                        THEN skills_from_snapshot(storeFile.doc.skills) ELSE << >>
         i == get(loaded.queue, jid)
         log(handled, end) ==
           [kind |-> "record-outcome", now |-> clock, dry_run |-> FALSE, due |-> << >>,
            before |-> loaded.queue, handled |-> handled, end |-> end, jid |-> jid,
            outcome |-> outcome, target |-> target, file |-> storeFile,
            inventory |-> inventory]
     IN IF loaded.raised
          THEN passLog' = log(<< >>, "raised") /\ UNCHANGED storeFile
        ELSE IF i = 0
          THEN passLog' = log(<< >>, "exit") /\ UNCHANGED storeFile
        ELSE LET task == record_outcome(loaded.queue[i], outcome, note)
                 reg == record(loaded.history.records, loaded.history.aliases,
                               task.posting, task.status)
                 credited == CreditFrom(inventory, target, 1, outcome)
                 saved == Storage_save([loaded.queue EXCEPT ![i] = task],
                                       reg.records, reg.aliases, credited.skills)
             IN IF credited.raises \/ saved.raises
                  THEN passLog' = log(<<(<<i, "raised">>)>>, "raised") /\ UNCHANGED storeFile
                  ELSE /\ passLog' = log(<<(<<i, "outcome">>)>>, "saved")
                       /\ storeFile' = StoreFile("doc", saved.doc)
  /\ UNCHANGED <<regVars, queueVars, disk, worker, wPc, wCfg, wDue, wPos, clock, sentLog,
                 jobPosting, matchLog, keysLog, cliLog, spc, stLog, plan, skillVars>>

OutcomeNext ==
  \E jid \in OutcomeJobIds, outcome \in OutcomeChoices, target \in TargetSkills :
    CliMarkOutcome(jid, outcome, None, target)

OutcomeInit ==
  /\ RegInit
  /\ QueueInit
  /\ WorkerIdle
  /\ worker = Worker(FALSE, FALSE)
  /\ disk = EmptyStore
  /\ jobPosting = PostingKwargs
  /\ matchLog = NoMatchCall
  /\ keysLog = NoKeysCall
  /\ cliLog = << >>
  /\ storeFile \in OutcomeFiles
  /\ spc = IdleProc
  /\ stLog = NoStoreCall
  /\ plan = NoPlan
  /\ SkillsIdle

-----------------------------------------------------------------------------
(* Registry with its snapshot: job_history.py, to_snapshot and from_snapshot *)

\* The postings recorded: two that share a role, one of them without a URL,
\* and one with another URL and no role.
HistoryPostings ==
  { Posting(None, tDev, cAcme, U1, None),
    Posting(None, tDevSpaced, cAcmeUpper, NoUrl, None),
    Posting(None, << >>, << >>, U3, None) }

\* A record as a snapshot holds it.
StoredRecord(p, status, occurrences) ==
  [key |-> _keys_for(p)[1], title |-> p.title, company |-> p.company,
   apply_url |-> p.apply_url, last_status |-> status, occurrences |-> occurrences]

GoneKey == <<"u", "r", "l", ":", ":", "g", "o", "n", "e">>

\* A snapshot on file whose alias map names a record the records list has
\* not: the role alias of jobB points at a record that is gone.
DanglingHistory ==
  [records |-> {StoredRecord(jobA, sApplied, 2)},
   aliases |-> [k \in {_keys_for(jobA)[1], _keys_for(jobB)[2]} |->
                  IF k = _keys_for(jobA)[1] THEN k ELSE GoneKey]]

\* The stores found at start.
HistoryStores == {EmptyStore, [queue |-> << >>, history |-> DanglingHistory]}

\* storage.save(...): the registry's snapshot goes to the store.
HistorySave ==
  /\ disk' = [disk EXCEPT !.history = registry_to_snapshot(records, aliases)]
  /\ UNCHANGED <<regVars, queueVars, worker, wPc, wCfg, wDue, wPos, runs, clock, sentLog,
                 passLog, extVars>>

\* storage.load(): the registry is rebuilt from the store's snapshot.
HistoryLoad ==
  /\ records' = registry_from_snapshot(disk.history).records
  /\ aliases' = registry_from_snapshot(disk.history).aliases
  /\ UNCHANGED <<regLog, queueVars, workerVars, extVars>>

HistoryNext ==
  \/ \E p \in HistoryPostings, status \in RegStatuses : Record(p, status)
  \/ HistorySave
  \/ HistoryLoad

-----------------------------------------------------------------------------
(* Duplicate detection before queueing: cli.py *)

\* The postings looked up: queued ones, the same jobs written differently,
\* and one that is not queued.
MatchPostings ==
  { jobA,
    Posting(None, tDevSpaced, cAcmeUpper, NoUrl, None),
    Posting(None, << >>, << >>, U1Slash, None),
    Posting(None, << >>, << >>, U3, None) }

\* existing = queue.find_matching(posting)
FindMatching(posting) ==
  /\ matchLog' = [called |-> TRUE, posting |-> posting,
                  raised |-> find_matching(items, posting).raised,
                  result |-> find_matching(items, posting).result,
                  before |-> items]
  /\ UNCHANGED <<regVars, queueVars, workerVars, jobPosting, keysLog, cliLog, storeVars, plan,
                 skillVars>>

MatchNext ==
  \/ \E task \in QueueTasks : Add(task)
  \/ \E posting \in MatchPostings : FindMatching(posting)

-----------------------------------------------------------------------------
(* Enqueue commands: cli.py, batch-queue and generate-documents --enqueue *)
(* The profile's blacklist is empty, as in the profile load_or_init builds. *)

\* The postings of a search payload and of a generate-documents command: a
\* queued job, the same role under another URL, an email-only job, and one
\* with neither an apply URL nor a contact email.
EnqueuePostings ==
  {jobA, jobB, jobE, Posting(<<"j", "4">>, <<"O", "p", "s">>, cAcme, NoUrl, None)}

Payloads ==
  {<< >>} \cup {<<p>> : p \in EnqueuePostings}
          \cup {<<p, q>> : p \in EnqueuePostings, q \in EnqueuePostings}

\* The stores found: empty, with jobA queued, and with the role of jobB applied
\* to already.
EnqueueStores ==
  { EmptyStore,
    save(<<NewTask(jobA, 1, << >>)>>, EmptyMap, EmptyMap),
    save(<< >>, record(EmptyMap, EmptyMap, jobC, sApplied).records,
                record(EmptyMap, EmptyMap, jobC, sApplied).aliases) }

\* The command's log entry.
EnqueueLog(kind, before, payload, handled, end) ==
  [kind |-> kind, now |-> clock, dry_run |-> FALSE, due |-> << >>, before |-> before,
   handled |-> handled, end |-> end, jid |-> None, payload |-> payload]

\* cmd_batch_queue, lines 855-909: the loop over the payload from item k on.
\* The result is the queue, what happened to each item, and whether the
\* command ended with an exception.
RECURSIVE BatchFrom(_, _, _, _, _, _)
BatchFrom(payload, k, queue, hist, apply_at, handled) ==
  IF k > Len(payload) THEN [queue |-> queue, handled |-> handled, raised |-> FALSE]
  ELSE LET posting == payload[k]
           step(result) == Append(handled, <<k, result>>)
       IN IF JobPosting_raises(PostingKwargs)
            THEN [queue |-> queue, handled |-> step("raised"), raised |-> TRUE]
          ELSE IF UrlFalsy(posting.apply_url) /\ ~Truthy(posting.contact_email)
            THEN BatchFrom(payload, k + 1, queue, hist, apply_at, step("skipped"))
          ELSE IF find_matching(queue, posting).raised
            THEN [queue |-> queue, handled |-> step("raised"), raised |-> TRUE]
          ELSE IF find_matching(queue, posting).result # 0
            THEN BatchFrom(payload, k + 1, queue, hist, apply_at, step("queued already"))
          ELSE IF find(hist.records, hist.aliases, posting) # None
            THEN BatchFrom(payload, k + 1, queue, hist, apply_at, step("applied already"))
          ELSE BatchFrom(payload, k + 1, add(queue, NewTask(posting, apply_at, << >>)),
                         hist, apply_at + 1, step("queued"))

\* cmd_batch_queue: load, queue the new postings of the payload, save.
CliBatchQueue(payload) ==
  /\ wPc = "idle"
  /\ runs < MaxRuns
  /\ runs' = runs + 1
  /\ LET state == load(disk, clock)
         done == BatchFrom(payload, 1, state.queue, state.history, clock, << >>)
     IN IF done.raised
          THEN /\ passLog' = EnqueueLog("batch-queue", state.queue, payload,
                                        done.handled, "raised")
               /\ UNCHANGED disk
          ELSE /\ passLog' = EnqueueLog("batch-queue", state.queue, payload,
                                        done.handled, "saved")
               /\ disk' = save(done.queue, state.history.records, state.history.aliases)
  /\ UNCHANGED <<items, records, aliases, worker, wPc, wCfg, wDue, wPos, clock, sentLog,
                 regLog, qLog, extVars>>

\* cmd_generate_documents with --enqueue, lines 282-404, for a posting whose
\* documents are written: SystemExit without an apply URL, else the same
\* decision as batch-queue for the one posting, then save.
CliGenerateEnqueue(posting) ==
  /\ wPc = "idle"
  /\ runs < MaxRuns
  /\ runs' = runs + 1
  /\ LET state == load(disk, clock)
         log(handled, end) ==
           EnqueueLog("generate-documents", state.queue, <<posting>>, handled, end)
     IN IF JobPosting_raises(PostingKwargs \ {"contact_email"})
          THEN passLog' = log(<<(<<1, "raised">>)>>, "raised") /\ UNCHANGED disk
        ELSE IF UrlFalsy(posting.apply_url)
          THEN passLog' = log(<<(<<1, "skipped">>)>>, "exit") /\ UNCHANGED disk
        ELSE IF find_matching(state.queue, posting).raised
          THEN passLog' = log(<<(<<1, "raised">>)>>, "raised") /\ UNCHANGED disk
        ELSE IF find_matching(state.queue, posting).result # 0
          THEN /\ passLog' = log(<<(<<1, "queued already">>)>>, "saved")
               /\ disk' = save(state.queue, state.history.records, state.history.aliases)
        ELSE IF find(state.history.records, state.history.aliases, posting) # None
          THEN /\ passLog' = log(<<(<<1, "applied already">>)>>, "saved")
               /\ disk' = save(state.queue, state.history.records, state.history.aliases)
        ELSE /\ passLog' = log(<<(<<1, "queued">>)>>, "saved")
             /\ disk' = save(add(state.queue, NewTask(posting, clock, << >>)),
                             state.history.records, state.history.aliases)
  /\ UNCHANGED <<items, records, aliases, worker, wPc, wCfg, wDue, wPos, clock, sentLog,
                 regLog, qLog, extVars>>

EnqueueNext ==
  \/ \E payload \in Payloads : CliBatchQueue(payload)
  \/ \E posting \in EnqueuePostings : CliGenerateEnqueue(posting)

-----------------------------------------------------------------------------
(* Fingerprints on their own: job_history.py, _keys_for *)

\* The _keys_for calls logged.
MaxKeyCalls == 2

tDevSplit == <<"D", " ", "e", "v">>
tBlank == <<" ">>
tTwoWords == <<"Q", "A", " ", "d", "e", "v">>
tTwoWordsWide == <<"q", "a", " ", " ", "D", "E", "V">>

\* Non-empty URLs with neither a host nor a path: "https://", "/" and "?i=3".
USchemeOnly == Url(sHttps, << >>, << >>, << >>)
USlashOnly == Url(<< >>, << >>, <<"/">>, << >>)
UQueryOnly == Url(<< >>, << >>, << >>, <<"i", "=", "3">>)

KeyPostings ==
  { Posting(None, tDev, cAcme, U1, None),
    Posting(None, tDevSpaced, cAcmeUpper, U1Slash, None),
    Posting(None, tDevSplit, cAcme, NoUrl, None),
    Posting(None, tTwoWords, << >>, U3, None),
    Posting(None, tTwoWordsWide, None, NoUrl, None),
    Posting(None, << >>, cAcme, U2, None),
    Posting(None, << >>, << >>, U3, None),
    Posting(None, tBlank, tBlank, NoUrl, None),
    Posting(None, None, None, NoUrl, None),
    Posting(None, tDev, cAcme, USchemeOnly, None),
    Posting(None, << >>, << >>, USlashOnly, None),
    Posting(None, tDev, << >>, UQueryOnly, None) }

\* registry._keys_for(posting)
KeysFor(posting) ==
  /\ Len(keysLog) < MaxKeyCalls
  /\ keysLog' = Append(keysLog, [p |-> posting, keys |-> _keys_for(posting)])
  /\ UNCHANGED <<regVars, queueVars, workerVars, jobPosting, matchLog, cliLog, storeVars,
                 plan, skillVars>>

KeysNext == \E posting \in KeyPostings : KeysFor(posting)

-----------------------------------------------------------------------------
(* Specifications *)

\* Nothing done yet outside the registry, the queue and the worker.  Postings
\* are what from_dict and cli.py build: with apply_url and contact_email.
ExtIdle ==
  /\ jobPosting = PostingKwargs
  /\ matchLog = NoMatchCall
  /\ keysLog = NoKeysCall
  /\ cliLog = << >>
  /\ StoreIdle
  /\ plan = NoPlan
  /\ SkillsIdle

Init ==
  /\ RegInit
  /\ QueueInit
  /\ WorkerIdle
  /\ worker = Worker(FALSE, FALSE)
  /\ disk = EmptyStore
  /\ ExtIdle

WorkerInit ==
  /\ RegInit
  /\ QueueInit
  /\ WorkerIdle
  /\ worker \in WorkerSetups
  /\ disk \in WorkerStores
  /\ ExtIdle

HistoryInit ==
  /\ RegInit
  /\ QueueInit
  /\ WorkerIdle
  /\ worker = Worker(FALSE, FALSE)
  /\ disk \in HistoryStores
  /\ ExtIdle

EnqueueInit ==
  /\ RegInit
  /\ QueueInit
  /\ WorkerIdle
  /\ worker = Worker(FALSE, FALSE)
  /\ disk \in EnqueueStores
  /\ ExtIdle

RegistrySpec == Init /\ [][RegistryNext]_vars

QueueSpec == Init /\ [][QueueNext]_vars

WorkerSpec == WorkerInit /\ [][WorkerNext]_vars

StoreSpec == StoreInit /\ [][StoreNext]_vars

HistorySpec == HistoryInit /\ [][HistoryNext]_vars

MatchSpec == Init /\ [][MatchNext]_vars

KeysSpec == Init /\ [][KeysNext]_vars

EnqueueSpec == EnqueueInit /\ [][EnqueueNext]_vars

OutcomeSpec == OutcomeInit /\ [][OutcomeNext]_vars

SharedSpec == WorkerInit /\ [][SharedNext]_vars

ScheduleSpec == Init /\ [][ScheduleNext]_vars

SkillsSpec == Init /\ [][SkillsNext]_vars

Next ==
  \/ RegistryNext
  \/ QueueNext
  \/ WorkerNext
  \/ StoreNext
  \/ HistoryNext
  \/ MatchNext
  \/ KeysNext
  \/ EnqueueNext
  \/ OutcomeNext
  \/ SharedNext
  \/ ScheduleNext
  \/ SkillsNext

Spec == Init /\ [][Next]_vars

-----------------------------------------------------------------------------
(* Registry claims *)

NumRecords == Cardinality(DOMAIN records)

\* The records the keys of a posting resolve to.
ResolvedBy(p) ==
  {(IF k \in DOMAIN aliases THEN aliases[k] ELSE k) : k \in Range(_keys_for(p))}
    \cap DOMAIN records

\* Call i and call i+1 are record() of the same posting, which matched no
\* record before call i.
TwiceFresh(i) ==
  /\ i + 1 <= Len(regLog)
  /\ regLog[i].p = regLog[i + 1].p
  /\ regLog[i].p \in regLog[i].fresh

\* C1: recording a posting that matched no record twice leaves exactly one
\* record for it, with occurrences = 2 (one record more than before); a third
\* record() of it with a non-empty status different from the record's
\* last_status sets last_status to it and adds no record.
C1_IdempotentRecording ==
  \A i \in 1..Len(regLog) :
    TwiceFresh(i) =>
      LET P == regLog[i].p IN
      /\ (Len(regLog) = i + 1 =>
            /\ find(records, aliases, P) # None
            /\ ResolvedBy(P) = {find(records, aliases, P)}
            /\ records[find(records, aliases, P)].occurrences = 2
            /\ NumRecords = regLog[i].nrec + 1)
      /\ (/\ Len(regLog) = i + 2
          /\ regLog[i + 2].p = P
          /\ Truthy(regLog[i + 2].status)
          /\ regLog[i + 2].status # regLog[i + 1].status
          => /\ find(records, aliases, P) # None
             /\ records[find(records, aliases, P)].last_status = regLog[i + 2].status
             /\ records[find(records, aliases, P)].occurrences = 3
             /\ NumRecords = regLog[i + 2].nrec
             /\ NumRecords = regLog[i].nrec + 1)

\* C1 witness: a posting recorded twice without a status and a third time with
\* status "applied".
C1_Witness ==
  /\ Len(regLog) = 3
  /\ TwiceFresh(1)
  /\ regLog[3].p = regLog[1].p
  /\ regLog[1].status = None /\ regLog[2].status = None
  /\ regLog[3].status = sApplied
  /\ NumRecords = 1

\* Call i records a posting with a URL and call i+1, the last call, records a
\* posting with the same (title, company) and a different URL; neither matched
\* a record before call i.
UrlChanged(i) ==
  /\ Len(regLog) = i + 1
  /\ regLog[i].p.title = regLog[i + 1].p.title
  /\ regLog[i].p.company = regLog[i + 1].p.company
  /\ ~UrlFalsy(regLog[i].p.apply_url)
  /\ ~UrlFalsy(regLog[i + 1].p.apply_url)
  /\ regLog[i].p.apply_url # regLog[i + 1].p.apply_url
  /\ {regLog[i].p, regLog[i + 1].p} \subseteq regLog[i].fresh

\* One record was added by calls i and i+1, and find() returns it for every
\* posting that carries the URL of either call.
SameRecordAfter(i) ==
  LET P == regLog[i].p
      found == find(records, aliases, P)
  IN /\ found # None
     /\ NumRecords = regLog[i].nrec + 1
     /\ \A q \in RegPostings :
          q.apply_url \in {P.apply_url, regLog[i + 1].p.apply_url}
            => find(records, aliases, q) = found

HasRoleKey(p) == _combo_key(p.title, p.company) # None

\* C2 as stated: after record(P) with URL U1 and record(P') with the same
\* (title, company) and another URL U2, there is one record, which find()
\* returns for a posting carrying U1 and for a posting carrying U2.
C2_AliasSelfHealing_Original ==
  \A i \in 1..Len(regLog) : UrlChanged(i) => SameRecordAfter(i)

\* C2 amended: the same, for postings whose title or company is non-blank (so
\* that the two postings share a role key).
C2_AliasSelfHealing ==
  \A i \in 1..Len(regLog) :
    UrlChanged(i) /\ HasRoleKey(regLog[i].p) => SameRecordAfter(i)

\* C2 witness: a titled posting recorded under U1 and again under U2, both
\* resolving to the one record.
C2_Witness ==
  /\ Len(regLog) = 2
  /\ UrlChanged(1)
  /\ HasRoleKey(regLog[1].p)
  /\ regLog[1].p.apply_url = U1 /\ regLog[2].p.apply_url = U2
  /\ NumRecords = 1
  /\ find(records, aliases, regLog[2].p) = find(records, aliases, regLog[1].p)

-----------------------------------------------------------------------------
(* Queue claims *)

LastOp == qLog[Len(qLog)]

\* The indices of the entries with a job_id.
EntriesOf(jid) == {i \in 1..Len(items) : job_id(items[i]) = jid}

\* C3: in every queue state reached by add() calls and from_snapshot() loads,
\* no two entries of the queue have the same job_id.
C3_UniqueJobIds ==
  \A i, j \in 1..Len(items) : i # j => job_id(items[i]) # job_id(items[j])

\* C4: add(task2) on a queue that holds an entry task1 with the same job_id
\* leaves exactly one entry for that job_id, whose notes are task1's followed
\* by task2's and whose attempts and last_error are task1's, not task2's.
C4_ReplaceNotDuplicate ==
  qLog # << >> /\ LastOp.op = "add" /\ LastOp.pre # << >> =>
    LET task1 == LastOp.pre[1]
        task2 == LastOp.arg
        entries == EntriesOf(job_id(task2))
    IN /\ Cardinality(entries) = 1
       /\ \A i \in entries :
            /\ items[i].notes = task1.notes \o task2.notes
            /\ items[i].attempts = task1.attempts
            /\ items[i].last_error = task1.last_error

\* C4 witness: add(task1), a failed attempt on it, then add(task2) with the
\* same job_id, where task2 carries notes, attempts and last_error of its own.
C4_Witness ==
  /\ Len(qLog) = 3
  /\ qLog[1].op = "add" /\ qLog[2].op = "mark_failure" /\ qLog[3].op = "add"
  /\ job_id(qLog[1].arg) = job_id(qLog[3].arg)
  /\ qLog[3].arg.attempts = 2 /\ qLog[3].arg.last_error = eY
  /\ Len(items) = 1
  /\ items[1].attempts = 1 /\ items[1].last_error = eX
  /\ items[1].notes = <<Note("failed", eX), Note("text", <<"m">>)>>

\* C5: due(when) returns exactly the pending entries with apply_at <= when,
\* each once, in ascending apply_at order, entries with equal apply_at in
\* their queue order.
C5_DueOrdering ==
  \A when \in Times :
    LET d == due(items, when)
        wanted == {i \in 1..Len(items) :
                     items[i].status = sPending /\ items[i].apply_at <= when}
    IN /\ Range(d) = wanted
       /\ Len(d) = Cardinality(wanted)
       /\ \A a, b \in 1..Len(d) :
            a < b =>
              \/ items[d[a]].apply_at < items[d[b]].apply_at
              \/ items[d[a]].apply_at = items[d[b]].apply_at /\ d[a] < d[b]

\* C5 witness: three pending entries, the second due earliest and the first
\* and third at the same time, returned as second, first, third.
C5_Witness ==
  /\ Len(items) = 3
  /\ items[1].apply_at = items[3].apply_at
  /\ items[2].apply_at < items[1].apply_at
  /\ due(items, MaxTime) = <<2, 1, 3>>

\* The last two operations are mark_failure(e) and defer(t) on one task, which
\* was a fresh pending task (no attempts, no error) before them.
FailedThenDeferred ==
  /\ Len(qLog) >= 2
  /\ qLog[Len(qLog) - 1].op = "mark_failure"
  /\ LastOp.op = "defer"
  /\ LastOp.i = qLog[Len(qLog) - 1].i
  /\ qLog[Len(qLog) - 1].pre[1].status = sPending
  /\ qLog[Len(qLog) - 1].pre[1].attempts = 0
  /\ qLog[Len(qLog) - 1].pre[1].last_error = None

\* C6: after mark_failure(e) and defer(t) on a fresh pending task, the task is
\* pending with attempts = 1 and last_error = e, and due(when) returns it
\* exactly for the times when >= t.
C6_RetryNeverLosesWork ==
  FailedThenDeferred =>
    LET i == LastOp.i IN
    /\ items[i].status = sPending
    /\ items[i].attempts = 1
    /\ items[i].last_error = qLog[Len(qLog) - 1].arg
    /\ \A when \in Times : (i \in Range(due(items, when))) <=> (when >= LastOp.arg)

\* C6 witness: a task due at 0 that failed and was deferred to MaxTime, so that
\* it is not due at the times before and is due at MaxTime.
C6_Witness ==
  /\ FailedThenDeferred
  /\ qLog[Len(qLog) - 1].pre[1].apply_at = 0
  /\ LastOp.arg = MaxTime
  /\ LastOp.i \notin Range(due(items, 0))
  /\ LastOp.i \in Range(due(items, MaxTime))

\* The last operation is record_outcome(o) with o a terminal outcome in some
\* letter case.
OutcomeRecorded ==
  /\ qLog # << >>
  /\ LastOp.op = "record_outcome"
  /\ Lower(LastOp.arg) \in TerminalOutcomes

\* C7: after record_outcome(o) for a terminal outcome o, in any letter case,
\* the task's status is o lower-cased and neither due(when), for any when, nor
\* pending() returns the task.
C7_OutcomeFreezesRetry ==
  OutcomeRecorded =>
    LET i == LastOp.i IN
    /\ items[i].status = Lower(LastOp.arg)
    /\ items[i].status \in TerminalOutcomes
    /\ i \notin pending(items)
    /\ \A when \in Times : i \notin Range(due(items, when))

\* C7 witness: "Rejected" recorded on a task that was pending and due at 0.
C7_Witness ==
  /\ OutcomeRecorded
  /\ LastOp.arg = <<"R", "e", "j", "e", "c", "t", "e", "d">>
  /\ LastOp.pre[1].status = sPending
  /\ LastOp.pre[1].apply_at = 0
  /\ items[LastOp.i].status = <<"r", "e", "j", "e", "c", "t", "e", "d">>

-----------------------------------------------------------------------------
(* Worker claims *)

PassEnded == passLog.kind = "pass" /\ passLog.end \in {"saved", "raised"}

HandledIndices == [k \in 1..Len(passLog.handled) |-> passLog.handled[k][1]]

\* C8: at the end of a worker pass, the tasks handled are exactly the tasks of
\* due(now), each once and in order, whatever was raised while handling one of
\* them (the task on which something was raised counts as handled).
C8_AllDueHandled == PassEnded => HandledIndices = passLog.due

\* C9: at the end of a pass that is not a dry run, every due task whose
\* submission did not succeed is stored with status "pending", a non-empty
\* last_error, attempts one higher than before, and apply_at = now + retry_delay.
C9_FailureRequeues ==
  (PassEnded /\ ~passLog.dry_run) =>
    \A k \in 1..Len(passLog.handled) :
      passLog.handled[k][2] = "failed" =>
        LET i == passLog.handled[k][1]
            stored == disk.queue[i]
        IN /\ stored.status = sPending
           /\ Truthy(stored.last_error)
           /\ stored.attempts = passLog.before[i].attempts + 1
           /\ stored.apply_at = passLog.now + RetryDelay

StoredJobIds(file) == {job_id(file.queue[k]) : k \in 1..Len(file.queue)}

Parses(file) == \A k \in 1..Len(file.queue) : ~from_dict_raises(file.queue[k])

\* One step keeps every stored job, and a stored task that was pending is
\* pending afterwards unless the pass recorded its submission as applied or a
\* mark-outcome command named it.
KeepsTasks ==
  /\ StoredJobIds(disk) \subseteq StoredJobIds(disk')
  /\ Len(disk'.queue) = Len(disk.queue)
  /\ \A k \in 1..Len(disk.queue) :
       disk.queue[k].status = sPending =>
         /\ job_id(disk'.queue[k]) = job_id(disk.queue[k])
         /\ \/ disk'.queue[k].status = sPending
            \/ /\ passLog'.kind = "pass"
               /\ disk'.queue[k].status = sApplied
               /\ <<k, "applied">> \in Range(passLog'.handled)
            \/ /\ passLog'.kind = "cli"
               /\ passLog'.jid = job_id(disk.queue[k])
               /\ <<k, "outcome">> \in Range(passLog'.handled)

-----------------------------------------------------------------------------
(* Store claims *)

\* The last Storage call was a load, of the document the last completed save
\* wrote.
LoadedWhatWasSaved ==
  /\ stLog.op = "load"
  /\ stLog.saved.done
  /\ stLog.read = StoreFile("doc", stLog.saved.doc)

\* Two tasks agree on every field a task dictionary carries.
SameTask(a, b) ==
  /\ job_id(a) = job_id(b)
  /\ a.status = b.status
  /\ a.attempts = b.attempts
  /\ a.last_error = b.last_error
  /\ a.apply_at = b.apply_at
  /\ a.outcome = b.outcome
  /\ a.notes = b.notes
  /\ a.posting = b.posting

\* C11: save followed by load gives back the queue that was saved (the same
\* job_ids in the same order, and for each task the same status, attempts,
\* last_error, apply_at, outcome, notes and posting fields) and the registry
\* that was saved, in which find(P) resolves every recorded posting P as before.
C11_RoundTrip ==
  LoadedWhatWasSaved =>
    /\ ~stLog.result.raised
    /\ Len(stLog.result.queue) = Len(stLog.saved.items)
    /\ \A k \in 1..Len(stLog.saved.items) :
         SameTask(stLog.result.queue[k], stLog.saved.items[k])
    /\ stLog.result.history.records = stLog.saved.records
    /\ \A p \in stLog.saved.recorded :
         find(stLog.result.history.records, stLog.result.history.aliases, p)
           = find(stLog.saved.records, stLog.saved.aliases, p)

\* The task loaded for a snapshot entry is a "failed" placeholder with the
\* error in its notes.
IsPlaceholder(task, entry) ==
  /\ task.status = sFailed
  /\ \E n \in 1..Len(task.notes) : task.notes[n][2] = from_dict_error(entry)

\* C12: loading a queue snapshot of n entries yields n tasks in the same
\* order; each well-formed entry loads as itself and each entry whose parsing
\* fails becomes a "failed" placeholder whose notes carry the error, whatever
\* the other entries are.
C12_EntryIsolation ==
  (stLog.op = "load" /\ stLog.read.kind = "doc") =>
    /\ ~stLog.result.raised
    /\ Len(stLog.result.queue) = Len(stLog.read.doc.queue)
    /\ \A k \in 1..Len(stLog.read.doc.queue) :
         IF stLog.read.doc.queue[k].apply_at = BadTime
           THEN IsPlaceholder(stLog.result.queue[k], stLog.read.doc.queue[k])
           ELSE stLog.result.queue[k] = from_dict(stLog.read.doc.queue[k])

\* What load() returned is the empty state.
LoadedEmpty ==
  /\ stLog.result.queue = << >>
  /\ stLog.result.history.records = EmptyMap
  /\ stLog.result.history.aliases = EmptyMap

\* C13: with no store file, load() raises nothing and returns no profile, no
\* inventory, an empty queue and an empty registry.
C13_MissingStore ==
  (stLog.op = "load" /\ stLog.read.kind = "missing") =>
    /\ ~stLog.result.raised
    /\ stLog.result.profile = None
    /\ stLog.result.skills = None
    /\ LoadedEmpty

\* A load found no file, after tasks had been queued in memory.
C13_Witness ==
  /\ stLog.op = "load"
  /\ stLog.read = MissingFile
  /\ ~stLog.result.raised
  /\ items = << >>
  /\ qLog # << >>

\* C14: a store file that is not a parseable document is loaded as the empty
\* state, with no error.
C14_CorruptStoreIsEmpty ==
  (stLog.op = "load" /\ stLog.read.kind \in {"corrupt", "truncated"}) =>
    (~stLog.result.raised /\ LoadedEmpty)

\* The document holding the four snapshots of one save call.
DocOf(saved) ==
  [profile |-> TheProfile,
   skills |-> skills_to_snapshot(saved.skills),
   queue |-> queue_to_snapshot(saved.items),
   history |-> registry_to_snapshot(saved.records, saved.aliases)]

\* C15 as stated: at every point in time, also inside and after an
\* interrupted save, the file is never truncated and holds the four snapshots
\* of one save call (the last one that completed).
C15_AtomicSave_Original ==
  /\ storeFile.kind # "truncated"
  /\ stLog.saved.done => storeFile = StoreFile("doc", DocOf(stLog.saved))

\* C15: whenever no save is in progress and none was interrupted since the
\* last one that completed, the file holds the profile, skills, queue and
\* registry snapshots of that one save call.
C15_AtomicSave ==
  (spc.pc = "idle" /\ stLog.saved.done /\ ~stLog.broken) =>
    storeFile = StoreFile("doc", DocOf(stLog.saved))

\* A save of a non-empty queue and a non-empty registry has completed, after
\* an earlier Storage call.
C15_Witness ==
  /\ stLog.op = "save"
  /\ stLog.n >= 2
  /\ stLog.saved.items # << >>
  /\ DOMAIN stLog.saved.records # {}
  /\ storeFile = StoreFile("doc", DocOf(stLog.saved))

-----------------------------------------------------------------------------
(* Scheduler claims *)

ValidPlan == plan.called /\ plan.min_interval_minutes > 0 /\ plan.break_every > 0

\* C16: for valid parameters plan_schedule returns one entry per job, in
\* input order, the k-th with apply_at = start + (k-1)*min_interval_minutes
\* + floor((k-1)/break_every)*break_duration.
C16_ScheduleFormula ==
  ValidPlan =>
    /\ ~plan.raises
    /\ Len(plan.schedule) = Len(plan.jobs)
    /\ \A k \in 1..Len(plan.jobs) :
         /\ plan.schedule[k].apply_at
              = plan.start + (k - 1) * plan.min_interval_minutes
                  + ((k - 1) \div plan.break_every) * plan.break_duration
         /\ plan.schedule[k].job_id = StrOf(plan.jobs[k].id)
         /\ plan.schedule[k].job_title = plan.jobs[k].title
         /\ plan.schedule[k].company = plan.jobs[k].company

\* Six jobs with interval 10, break_every 5 and a break of 30 from T = 7:
\* T, T+10, T+20, T+30, T+40, T+80.
C16_Witness ==
  /\ plan.called
  /\ Len(plan.jobs) = 6
  /\ plan.start = 7 /\ plan.min_interval_minutes = 10
  /\ plan.break_every = 5 /\ plan.break_duration = 30
  /\ [k \in 1..6 |-> plan.schedule[k].apply_at] = <<7, 17, 27, 37, 47, 87>>

\* C17: every call that passes validation, whatever break_duration it was
\* given, returns apply_at times that strictly increase in input order.
C17_StrictlyIncreasing ==
  (plan.called /\ ~plan.raises) =>
    \A k \in 1..(Len(plan.schedule) - 1) :
      plan.schedule[k].apply_at < plan.schedule[k + 1].apply_at

\* C18: with min_interval_minutes <= 0 or break_every <= 0 the call fails
\* and no schedule entry is produced.
C18_Validation ==
  (plan.called /\ (plan.min_interval_minutes <= 0 \/ plan.break_every <= 0)) =>
    (plan.raises /\ plan.schedule = << >>)

\* A call with jobs to schedule and break_every = 0 failed.
C18_Witness ==
  /\ plan.called
  /\ plan.jobs # << >>
  /\ plan.min_interval_minutes > 0
  /\ plan.break_every = 0
  /\ plan.raises

-----------------------------------------------------------------------------
(* Skills claims *)

Gap(rec) == rec.occurrences - rec.interviews - rec.offers

\* rec may stand before other: by descending gap, then descending
\* occurrences, then ascending name.
MayPrecede_byName(rec, other) ==
  \/ Gap(rec) > Gap(other)
  \/ Gap(rec) = Gap(other) /\ rec.occurrences > other.occurrences
  \/ /\ Gap(rec) = Gap(other)
     /\ rec.occurrences = other.occurrences
     /\ ~TextLess(other.name, rec.name)

\* The same, with the names compared in lower case.
MayPrecede_byLowerName(rec, other) ==
  \/ Gap(rec) > Gap(other)
  \/ Gap(rec) = Gap(other) /\ rec.occurrences > other.occurrences
  \/ /\ Gap(rec) = Gap(other)
     /\ rec.occurrences = other.occurrences
     /\ ~TextLess(Lower(other.name), Lower(rec.name))

\* ranked holds every record of the inventory exactly once.
EveryRecordOnce(ranked) ==
  /\ Len(ranked) = Len(skills)
  /\ \A i \in 1..Len(skills) :
       Cardinality({j \in 1..Len(ranked) : ranked[j] = skills[i]}) = 1

\* C19 as stated: sorted_by_opportunity() returns every record once, by
\* descending (occurrences - interviews - offers), then descending
\* occurrences, then ascending name.
C19_OpportunityOrder_Original ==
  /\ EveryRecordOnce(sorted_by_opportunity(skills))
  /\ \A i, j \in 1..Len(skills) :
       i < j => MayPrecede_byName(sorted_by_opportunity(skills)[i],
                                  sorted_by_opportunity(skills)[j])

\* C19: sorted_by_opportunity() returns every record once, by descending
\* (occurrences - interviews - offers), then descending occurrences, then
\* ascending lower-cased name.
C19_OpportunityOrder ==
  /\ EveryRecordOnce(sorted_by_opportunity(skills))
  /\ \A i, j \in 1..Len(skills) :
       i < j => MayPrecede_byLowerName(sorted_by_opportunity(skills)[i],
                                       sorted_by_opportunity(skills)[j])

\* The skill seen twice and never answered ranks before the one seen once
\* that led to an interview, though it was recorded after it.
C19_Witness ==
  /\ Len(skills) = 2
  /\ skills[1].occurrences = 1 /\ skills[1].interviews = 1 /\ skills[1].offers = 0
  /\ skills[2].occurrences = 2 /\ skills[2].interviews = 0 /\ skills[2].offers = 0
  /\ sorted_by_opportunity(skills) = <<skills[2], skills[1]>>

\* The key of a skill name: trimmed, case-insensitive.
KeyOf(name) == Lower(Strip(name))

\* The names the calls so far have shown the inventory, in order: those of
\* the observe_skills lists and those of the calls that did not raise,
\* blank names left out.
RECURSIVE NamesSeen(_)
NamesSeen(log) ==
  IF log = << >> THEN << >>
  ELSE SelectSeq(Head(log).names, LAMBDA name : KeyOf(name) # << >>)
       \o NamesSeen(Tail(log))

\* How often the observe_skills calls so far named key, in any casing.
RECURSIVE TimesObserved(_, _)
TimesObserved(log, key) ==
  IF log = << >> THEN 0
  ELSE (IF Head(log).op = "observe"
          THEN Cardinality({n \in 1..Len(Head(log).names) :
                              KeyOf(Head(log).names[n]) = key})
          ELSE 0)
       + TimesObserved(Tail(log), key)

FirstSeen(key) ==
  NamesSeen(skLog)[CHOOSE n \in 1..Len(NamesSeen(skLog)) :
                     /\ KeyOf(NamesSeen(skLog)[n]) = key
                     /\ \A m \in 1..(n - 1) : KeyOf(NamesSeen(skLog)[m]) # key]

\* C20: there is exactly one record per trimmed, case-insensitive skill name
\* seen; its occurrences is the number of times observe_skills was given the
\* name, repeats within a call included, and its display name is the first
\* casing seen for the key.
C20_Accumulation ==
  /\ \A i, j \in 1..Len(skills) : skills[i].key = skills[j].key => i = j
  /\ {skills[i].key : i \in 1..Len(skills)}
       = {KeyOf(NamesSeen(skLog)[n]) : n \in 1..Len(NamesSeen(skLog))}
  /\ \A i \in 1..Len(skills) :
       /\ skills[i].occurrences = TimesObserved(skLog, skills[i].key)
       /\ skills[i].name = Strip(FirstSeen(skills[i].key))

\* "py" was observed as " PY " and "py" in one call and as "Py" in a later
\* one: one record, named "PY", with occurrences 3.
C20_Witness ==
  /\ Len(skLog) = 2
  /\ skLog[1].op = "observe" /\ skLog[1].names = <<kPyPadded, kPyLower>>
  /\ skLog[2].op = "observe" /\ skLog[2].names = <<kBlank, kPy, << >>>>
  /\ Len(skills) = 1
  /\ skills[1].key = kPyLower
  /\ skills[1].name = <<"P", "Y">>
  /\ skills[1].occurrences = 3

\* The counters of the record with key in sk; all 0 when there is none.
CountersOf(sk, key) ==
  IF SkillAt(sk, key) = 0
    THEN [occurrences |-> 0, interviews |-> 0, offers |-> 0]
    ELSE [occurrences |-> sk[SkillAt(sk, key)].occurrences,
          interviews |-> sk[SkillAt(sk, key)].interviews,
          offers |-> sk[SkillAt(sk, key)].offers]

KeysOf(sk) == {sk[i].key : i \in 1..Len(sk)}

\* The step is a call of record_interview or record_offer.
OutcomeCall ==
  /\ Len(skLog') = Len(skLog) + 1
  /\ skLog'[Len(skLog')].op \in {"interview", "offer"}

\* What the call of this step does to the inventory.
OutcomeEffect ==
  LET call == skLog'[Len(skLog')]
      key == KeyOf(call.names[1])
      old == CountersOf(skills, key)
  IN IF key = << >>
       THEN call.raised /\ skills' = skills
       ELSE /\ ~call.raised
            /\ KeysOf(skills') = KeysOf(skills) \cup {key}
            /\ CountersOf(skills', key)
                 = [occurrences |-> old.occurrences,
                    interviews |-> old.interviews
                                     + (IF call.op = "interview" THEN 1 ELSE 0),
                    offers |-> old.offers + (IF call.op = "offer" THEN 1 ELSE 0)]
            /\ \A k \in KeysOf(skills) \ {key} :
                 CountersOf(skills', k) = CountersOf(skills, k)

\* C21: record_interview / record_offer with a non-blank name adds one to
\* that skill's interviews / offers and changes no other counter, creating a
\* record with occurrences 0 for a skill not seen before; a blank name raises
\* and changes nothing; and there stays one record per key, whatever casing
\* later calls use.
C21_OutcomeCounters ==
  [][/\ OutcomeCall => OutcomeEffect
     /\ \A i, j \in 1..Len(skills') : skills'[i].key = skills'[j].key => i = j]_vars

\* record_interview("GO") created the record; observe_skills(["Py", "go"])
\* then counted on it.
C21_Witness ==
  /\ Len(skLog) = 2
  /\ skLog[1].op = "interview" /\ skLog[1].names = <<kGoUpper>>
  /\ skLog[2].op = "observe" /\ skLog[2].names = <<kPy, kGo>>
  /\ Len(skills) = 2
  /\ skills[1].key = kGo
  /\ skills[1].occurrences = 1 /\ skills[1].interviews = 1 /\ skills[1].offers = 0

-----------------------------------------------------------------------------
(* Registry claims, continued *)

\* C22: in every registry state reached by record() calls and snapshot
\* save/load, every key of the alias map maps to the key of a record that
\* the records map holds.
C22_AliasesResolve ==
  \A k \in DOMAIN aliases :
    /\ aliases[k] \in DOMAIN records
    /\ records[aliases[k]].key = aliases[k]

\* The snapshot with the dangling alias was loaded, and postings were
\* recorded since, one of them matching the loaded record.
C22_Witness ==
  /\ disk.history = DanglingHistory
  /\ _keys_for(jobA)[1] \in DOMAIN records
  /\ records[_keys_for(jobA)[1]].occurrences = 3
  /\ Cardinality(DOMAIN records) >= 2
  /\ GoneKey \notin DOMAIN records

\* C23: no record() call removes a record key or an alias key, or lowers a
\* record's occurrences.
C23_RegistryOnlyGrows ==
  [][/\ DOMAIN records \subseteq DOMAIN records'
     /\ DOMAIN aliases \subseteq DOMAIN aliases'
     /\ \A k \in DOMAIN records : records'[k].occurrences >= records[k].occurrences]_vars

\* Three calls have left two records, one of them seen twice, and three
\* alias keys.
C23_Witness ==
  /\ Len(regLog) = 3
  /\ Cardinality(DOMAIN records) = 2
  /\ Cardinality(DOMAIN aliases) >= 3
  /\ \E k \in DOMAIN records : records[k].occurrences = 2

\* The step is a record(P, status) call whose posting matched a record.
RecordMatched ==
  /\ Len(regLog') = Len(regLog) + 1
  /\ find(records, aliases, regLog'[Len(regLog')].p) # None

\* What the step's call was given, and the record it matched, before and after.
CallP == regLog'[Len(regLog')].p
CallStatus == regLog'[Len(regLog')].status
Matched == records[find(records, aliases, CallP)]
MatchedAfter == records'[find(records, aliases, CallP)]

StatusAndAliases ==
  /\ MatchedAfter.last_status
       = (IF Truthy(CallStatus) THEN CallStatus ELSE Matched.last_status)
  /\ \A n \in 1..Len(_keys_for(CallP)) :
       /\ _keys_for(CallP)[n] \in DOMAIN aliases'
       /\ aliases'[_keys_for(CallP)[n]] = Matched.key

\* C24 as stated: the matched record afterwards has P's title, company and
\* apply_url, the status given (its own when none was given), and every key
\* of P as an alias.
C24_TouchRefreshes_Original ==
  [][RecordMatched =>
       /\ MatchedAfter.title = CallP.title
       /\ MatchedAfter.company = CallP.company
       /\ MatchedAfter.apply_url = CallP.apply_url
       /\ StatusAndAliases]_vars

\* C24: the matched record afterwards has P's title, company and apply_url
\* where P has one (and keeps its own where P's is empty or none), the status
\* given (its own when none was given), and every key of P as an alias.
C24_TouchRefreshes ==
  [][RecordMatched =>
       /\ MatchedAfter.title
            = (IF Truthy(CallP.title) THEN CallP.title ELSE Matched.title)
       /\ MatchedAfter.company
            = (IF Truthy(CallP.company) THEN CallP.company ELSE Matched.company)
       /\ MatchedAfter.apply_url
            = (IF UrlFalsy(CallP.apply_url) THEN Matched.apply_url ELSE CallP.apply_url)
       /\ StatusAndAliases]_vars

\* A posting without a URL matched, by its role, the record of a posting
\* with one: the record took its title and company, kept its URL and took
\* the status given.
C24_Witness ==
  /\ Len(regLog) = 2
  /\ regLog[1].p = Posting(None, tDev, cAcme, U1, None) /\ regLog[1].status = None
  /\ regLog[2].p = Posting(None, tDevSpaced, cAcmeUpper, NoUrl, None)
  /\ regLog[2].status = sApplied
  /\ Cardinality(DOMAIN records) = 1
  /\ \A k \in DOMAIN records :
       /\ records[k].title = tDevSpaced /\ records[k].company = cAcmeUpper
       /\ records[k].apply_url = U1
       /\ records[k].last_status = sApplied

-----------------------------------------------------------------------------
(* Duplicate-detection claims *)

\* Two postings are the same job: they share a fingerprint key.
SameJob(p, q) == Range(_keys_for(p)) \cap Range(_keys_for(q)) # {}

\* C25: find_matching(posting) returns a queued task whenever the posting of
\* some queued task has the same normalised apply URL or the same normalised
\* (title, company) pair, returns none otherwise, and leaves the queue as it
\* was.
C25_FindMatching ==
  matchLog.called =>
    /\ ~matchLog.raised
    /\ items = matchLog.before
    /\ IF \E i \in 1..Len(items) : SameJob(items[i].posting, matchLog.posting)
         THEN /\ matchLog.result \in 1..Len(items)
              /\ SameJob(items[matchLog.result].posting, matchLog.posting)
         ELSE matchLog.result = 0

-----------------------------------------------------------------------------
(* Queue claims, continued *)

\* The task the last queue operation acted on, before and after it.
TaskBefore == LastOp.pre[1]
TaskAfter == items[LastOp.i]

\* C26: mark_success() sets status and outcome to "applied", adds one to
\* attempts, clears last_error, appends exactly one note after the notes
\* there were, and leaves apply_at and the posting as they were.
C26_MarkSuccess ==
  (qLog # << >> /\ LastOp.op = "mark_success") =>
    /\ TaskAfter.status = sApplied
    /\ TaskAfter.outcome = sApplied
    /\ TaskAfter.attempts = TaskBefore.attempts + 1
    /\ TaskAfter.last_error = None
    /\ Len(TaskAfter.notes) = Len(TaskBefore.notes) + 1
    /\ SubSeq(TaskAfter.notes, 1, Len(TaskBefore.notes)) = TaskBefore.notes
    /\ TaskAfter.apply_at = TaskBefore.apply_at
    /\ TaskAfter.posting = TaskBefore.posting

\* mark_success() on a task that had failed twice, with an error and a note.
C26_Witness ==
  /\ qLog # << >>
  /\ LastOp.op = "mark_success"
  /\ TaskBefore.attempts = 2 /\ TaskBefore.last_error = eY
  /\ TaskBefore.notes = <<Note("text", <<"m">>)>>
  /\ TaskAfter.attempts = 3 /\ TaskAfter.last_error = None
  /\ Len(TaskAfter.notes) = 2

\* The free-text note the last record_outcome call was given.
NoteGiven == (CHOOSE call \in OutcomeCalls : call[1] = LastOp.arg)[2]

\* The notes record_outcome is to append: the outcome note, then the
\* free-text note when it is not blank.
OutcomeNotes ==
  <<Note("outcome", Lower(Strip(LastOp.arg)))>>
    \o (IF NoteGiven # None /\ Strip(NoteGiven) # << >>
          THEN <<Note("text", Strip(NoteGiven))>> ELSE << >>)

\* C27: record_outcome(outcome, note) sets status and outcome to the
\* trimmed, lower-cased outcome, appends the outcome note and then the
\* free-text note (when it is not blank) after the notes there were, and
\* leaves attempts, last_error and apply_at as they were.
C27_RecordOutcome ==
  (qLog # << >> /\ LastOp.op = "record_outcome") =>
    /\ TaskAfter.status = Lower(Strip(LastOp.arg))
    /\ TaskAfter.outcome = Lower(Strip(LastOp.arg))
    /\ TaskAfter.notes = TaskBefore.notes \o OutcomeNotes
    /\ TaskAfter.attempts = TaskBefore.attempts
    /\ TaskAfter.last_error = TaskBefore.last_error
    /\ TaskAfter.apply_at = TaskBefore.apply_at

\* record_outcome("ghosted", note=" n ") on a task that had failed twice.
C27_Witness ==
  /\ qLog # << >>
  /\ LastOp.op = "record_outcome"
  /\ LastOp.arg = <<"g", "h", "o", "s", "t", "e", "d">>
  /\ TaskBefore.attempts = 2 /\ TaskBefore.last_error = eY
  /\ TaskAfter.attempts = 2 /\ TaskAfter.last_error = eY
  /\ TaskAfter.notes
       = <<Note("text", <<"m">>), Note("outcome", <<"g", "h", "o", "s", "t", "e", "d">>),
           Note("text", <<"n">>)>>

-----------------------------------------------------------------------------
(* Worker claims, continued *)

\* The stored queue as the next pass loads it.
StoredQueue == from_snapshot(disk.queue, passLog.now)

\* C28: a task whose submission failed stays pending with one more attempt
\* and is due again retry_delay later, and the worker loop goes on to its
\* next pass (run_once returned and saved), so that the task is attempted
\* again and again with no cap on attempts.
C28_UnboundedRetry ==
  (PassEnded /\ \E k \in 1..Len(passLog.handled) : passLog.handled[k][2] = "failed") =>
    /\ passLog.end = "saved"
    /\ \A k \in 1..Len(passLog.handled) :
         passLog.handled[k][2] = "failed" =>
           LET i == passLog.handled[k][1]
           IN /\ StoredQueue[i].status = sPending
              /\ StoredQueue[i].attempts = passLog.before[i].attempts + 1
              /\ i \notin Range(due(StoredQueue, passLog.now))
              /\ i \in Range(due(StoredQueue, passLog.now + RetryDelay))

\* The task at position k of due is as its handling left it.
Completed(k) ==
  LET i == passLog.due[k]
      result == passLog.handled[k][2]
  IN /\ result = "applied" =>
          /\ items[i].status = sApplied
          /\ items[i].attempts = passLog.before[i].attempts + 1
     /\ result = "failed" =>
          /\ items[i].status = sPending
          /\ items[i].attempts = passLog.before[i].attempts + 1
          /\ items[i].apply_at = passLog.now + RetryDelay
     /\ result = "dry_run" =>
          /\ items[i].status = sPending
          /\ items[i].attempts = passLog.before[i].attempts
          /\ items[i].apply_at = passLog.now + RetryDelay

\* C29: within a pass the due tasks are handled one at a time in ascending
\* apply_at order: the tasks handled so far are the first ones of due, each
\* once, every one of them is as its handling left it, and the tasks not yet
\* handled are as they were loaded.
C29_SequentialHandling ==
  passLog.kind = "pass" =>
    /\ \A k \in 1..(Len(passLog.due) - 1) :
         passLog.before[passLog.due[k]].apply_at
           <= passLog.before[passLog.due[k + 1]].apply_at
    /\ Len(passLog.handled) <= Len(passLog.due)
    /\ \A k \in 1..Len(passLog.handled) : HandledIndices[k] = passLog.due[k]
    /\ \A j, k \in 1..Len(passLog.handled) :
         HandledIndices[j] = HandledIndices[k] => j = k
    /\ wPc = "running" =>
         /\ Len(passLog.handled) = wPos - 1
         /\ \A k \in 1..Len(passLog.handled) : Completed(k)
         /\ \A k \in wPos..Len(passLog.due) :
              items[passLog.due[k]] = passLog.before[passLog.due[k]]

\* The first of two due tasks has been applied to, the second, stored before
\* it but due later, has not been touched yet.
C29_Witness ==
  /\ wPc = "running"
  /\ passLog.due = <<2, 1>>
  /\ passLog.before[2].apply_at < passLog.before[1].apply_at
  /\ passLog.handled = <<(<<2, "applied">>)>>
  /\ items[2].status = sApplied
  /\ items[1] = passLog.before[1]

\* find(posting) gives a record whose last_status is status.
RecordedAs(recs, al, posting, status) ==
  /\ find(recs, al, posting) # None
  /\ recs[find(recs, al, posting)].last_status = status

\* find(posting) gives a record whose last_status is "applied".
RecordedApplied(recs, al, posting) ==
  /\ find(recs, al, posting) # None
  /\ recs[find(recs, al, posting)].last_status = sApplied

\* C30: every task a pass marked as applied has its posting in the registry
\* with last_status "applied": in the registry of the running pass, and in
\* the stored registry once the pass has saved.
C30_AppliedIsRecorded ==
  passLog.kind = "pass" =>
    \A k \in 1..Len(passLog.handled) :
      passLog.handled[k][2] = "applied" =>
        /\ passLog.end = "running" =>
             /\ items[passLog.handled[k][1]].status = sApplied
             /\ RecordedApplied(records, aliases, items[passLog.handled[k][1]].posting)
        /\ passLog.end = "saved" =>
             /\ StoredQueue[passLog.handled[k][1]].status = sApplied
             /\ RecordedApplied(registry_from_snapshot(disk.history).records,
                                registry_from_snapshot(disk.history).aliases,
                                StoredQueue[passLog.handled[k][1]].posting)

\* A saved pass applied to one task through the browser and to one by email;
\* the stored registry finds the posting sent by email as applied.
C30_Witness ==
  /\ passLog.kind = "pass"
  /\ passLog.end = "saved"
  /\ Len(passLog.handled) = 2
  /\ passLog.handled[1][2] = "applied" /\ passLog.handled[2][2] = "applied"
  /\ StoredQueue[2].posting.contact_email # None
  /\ RecordedApplied(registry_from_snapshot(disk.history).records,
                     registry_from_snapshot(disk.history).aliases,
                     StoredQueue[2].posting)

-----------------------------------------------------------------------------
(* Fingerprint claims *)

HasPrefix(key, prefix) ==
  Len(key) >= Len(prefix) /\ SubSeq(key, 1, Len(prefix)) = prefix

IsUrlKey(key) == HasPrefix(key, <<"u", "r", "l", ":", ":">>)
IsRoleKey(key) == HasPrefix(key, <<"r", "o", "l", "e", ":", ":">>)
IsFallbackKey(key) == HasPrefix(key, <<"f", "a", "l", "l", "b", "a", "c", "k", ":", ":">>)

\* The text has a character that is not whitespace.
NonBlank(s) == Truthy(s) /\ \E i \in 1..Len(s) : ~IsSpace(s[i])

\* The text without its whitespace, in lower case ("" for None).
Squeezed(s) == IF Truthy(s) THEN Lower(SelectSeq(s, LAMBDA c : ~IsSpace(c))) ELSE << >>

\* The words of the text, in lower case.
WordsOf(s) == IF Truthy(s) THEN Split(Lower(s)) ELSE << >>

\* The URL names a host, or a path that is more than slashes.
HasLocation(u) ==
  /\ u # NoUrl
  /\ \/ u.netloc # << >>
     \/ \E i \in 1..Len(u.path) : u.path[i] # "/"

RoleKeysOf(keys) == {keys[k] : k \in {j \in 1..Len(keys) : IsRoleKey(keys[j])}}

\* What holds of every key list whatever the URL.
KeyListShape(c) ==
  /\ c.keys # << >>
  /\ \A j, k \in 1..Len(c.keys) : c.keys[j] = c.keys[k] => j = k
  /\ \A k \in 1..Len(c.keys) : IsUrlKey(c.keys[k]) => k = 1
  /\ (NonBlank(c.p.title) \/ NonBlank(c.p.company)) <=> RoleKeysOf(c.keys) # {}
  /\ Cardinality(RoleKeysOf(c.keys)) <= 1
  /\ (\E k \in 1..Len(c.keys) : IsFallbackKey(c.keys[k])) <=>
       \A k \in 1..Len(c.keys) : ~IsUrlKey(c.keys[k]) /\ ~IsRoleKey(c.keys[k])
  /\ \A d \in Range(keysLog) : d.p = c.p => d.keys = c.keys

\* C31 as stated: every key list is non-empty and the same for the same
\* posting, starts with the URL key whenever the apply URL is non-empty, has
\* the role key exactly when title or company is non-blank, has the fallback
\* key only when it has neither of the others; postings whose title and
\* company differ only in letter case or whitespace have the same role key.
C31_Fingerprint_Original ==
  /\ \A c \in Range(keysLog) :
       /\ KeyListShape(c)
       /\ ~UrlFalsy(c.p.apply_url) => IsUrlKey(c.keys[1])
  /\ \A c, d \in Range(keysLog) :
       (/\ Squeezed(c.p.title) = Squeezed(d.p.title)
        /\ Squeezed(c.p.company) = Squeezed(d.p.company))
         => RoleKeysOf(c.keys) = RoleKeysOf(d.keys)

\* C31 amended: the URL key comes first exactly when the apply URL names a
\* host or a path that is more than slashes; postings whose title and company
\* have the same words up to letter case have the same role key.
C31_Fingerprint ==
  /\ \A c \in Range(keysLog) :
       /\ KeyListShape(c)
       /\ HasLocation(c.p.apply_url) <=> IsUrlKey(c.keys[1])
  /\ \A c, d \in Range(keysLog) :
       (/\ WordsOf(c.p.title) = WordsOf(d.p.title)
        /\ WordsOf(c.p.company) = WordsOf(d.p.company))
         => RoleKeysOf(c.keys) = RoleKeysOf(d.keys)

\* Two spellings of one posting give the same URL key and role key, in that
\* order, and a posting whose URL is only "https://" gives its role key alone.
C31_Witness ==
  /\ Len(keysLog) = 2
  /\ keysLog[1].p = Posting(None, tDevSpaced, cAcmeUpper, U1Slash, None)
  /\ keysLog[2].p = Posting(None, tDev, cAcme, U1, None)
  /\ keysLog[1].keys = keysLog[2].keys
  /\ Len(keysLog[2].keys) = 2
  /\ IsUrlKey(keysLog[2].keys[1]) /\ IsRoleKey(keysLog[2].keys[2])

-----------------------------------------------------------------------------
(* Enqueue claims *)

\* The tasks of the stored queue whose job_id the queue did not have when the
\* command loaded it.
AddedByCommand ==
  {i \in 1..Len(disk.queue) : get(passLog.before, job_id(disk.queue[i])) = 0}

-----------------------------------------------------------------------------
(* record-outcome claims *)

\* The key a skill name is kept under.
SkillKey(name) == Strip(Lower(name))

\* The command named a queued job, and the job's position in the loaded queue.
KnownJob == get(passLog.before, passLog.jid) # 0
JobAt == get(passLog.before, passLog.jid)

\* Crediting fails: the outcome is an interview or offer and a target skill
\* name is blank.
CreditFails ==
  /\ Lower(passLog.outcome) \in {sInterview, sOffer}
  /\ \E k \in 1..Len(passLog.target) : SkillKey(passLog.target[k]) = << >>

\* The counter the outcome credits, of the skill with key in sk.
Credited(sk, key) ==
  IF Lower(passLog.outcome) = sInterview THEN CountersOf(sk, key).interviews
  ELSE CountersOf(sk, key).offers

TimesNamed(key) ==
  Cardinality({k \in 1..Len(passLog.target) : SkillKey(passLog.target[k]) = key})

\* The stored queue and registry after the command show the outcome.
OutcomeStored ==
  LET stored == Storage_load(storeFile, passLog.now)
      task == stored.queue[JobAt]
      status == Lower(Strip(passLog.outcome))
  IN /\ storeFile.kind = "doc"
     /\ Len(stored.queue) = Len(passLog.before)
     /\ job_id(task) = passLog.jid
     /\ task.status = status
     /\ task.outcome = status
     /\ \A j \in 1..Len(stored.queue) : j # JobAt => stored.queue[j] = passLog.before[j]
     /\ RecordedAs(stored.history.records, stored.history.aliases, task.posting, status)

\* Every target skill's counter is n(key) higher than before, and nothing
\* else changed in the stored skills.
SkillsStored(n(_)) ==
  LET now == skills_from_snapshot(storeFile.doc.skills)
      keys == {SkillKey(passLog.target[k]) : k \in 1..Len(passLog.target)}
  IN IF Lower(passLog.outcome) \in {sInterview, sOffer}
       THEN /\ KeysOf(now) = KeysOf(passLog.inventory) \cup keys
            /\ \A key \in keys :
                 Credited(now, key) = Credited(passLog.inventory, key) + n(key)
            /\ \A key \in KeysOf(now) \ keys :
                 CountersOf(now, key) = CountersOf(passLog.inventory, key)
            /\ \A key \in KeysOf(now) :
                 CountersOf(now, key).occurrences
                   = CountersOf(passLog.inventory, key).occurrences
       ELSE \A key \in KeysOf(now) \cup KeysOf(passLog.inventory) :
              CountersOf(now, key) = CountersOf(passLog.inventory, key)

One(key) == 1

AllOrNothing(n(_)) ==
  passLog.kind = "record-outcome" =>
    IF ~KnownJob \/ CreditFails
      THEN /\ passLog.end \in {"exit", "raised"}
           /\ storeFile = passLog.file
      ELSE /\ passLog.end = "saved"
           /\ OutcomeStored
           /\ SkillsStored(n)

\* C33 as stated: record-outcome for an unknown job_id, or with a skill that
\* cannot be credited, ends with an error and leaves the store file as it
\* was; otherwise the stored task has the new status, the stored registry has
\* a record for its posting with that status, and for an interview or offer
\* the counter of each target skill is one higher than before.
C33_AllOrNothing_Original == AllOrNothing(One)

\* C33 amended: the same, where the counter of each target skill is higher by
\* the number of times the target list names it.
C33_AllOrNothing == AllOrNothing(TimesNamed)

\* An offer recorded for a queued job with two target skills, one of them new
\* to the inventory: stored with status "offer" and both skills credited.
C33_Witness ==
  /\ passLog.kind = "record-outcome"
  /\ passLog.end = "saved"
  /\ passLog.outcome = sOffer
  /\ passLog.target = <<kGoUpper, kPyPadded>>
  /\ OutcomeStored
  /\ CountersOf(skills_from_snapshot(storeFile.doc.skills), kGo).offers = 1
  /\ CountersOf(skills_from_snapshot(storeFile.doc.skills), kPyLower).offers = 1
  /\ CountersOf(skills_from_snapshot(storeFile.doc.skills), kPyLower).interviews = 1

-----------------------------------------------------------------------------
(* Queue claims: the attempts counter *)

\* The job_ids of the queue, and the attempts of the entry get() returns.
JobIds(its) == {job_id(its[i]) : i \in 1..Len(its)}
AttemptsOf(its, jid) == its[get(its, jid)].attempts

\* The step is a queue operation op on an entry or an add().
QueueOp(op) ==
  /\ Len(qLog') = Len(qLog) + 1
  /\ qLog'[Len(qLog')].op = op

\* What one operation does to the attempts counters.
AttemptsStep ==
  /\ (\E op \in {"add", "mark_success", "mark_failure", "defer", "record_outcome"} :
        QueueOp(op))
       => \A jid \in JobIds(items) :
            /\ jid \in JobIds(items')
            /\ AttemptsOf(items', jid) >= AttemptsOf(items, jid)
  /\ (QueueOp("mark_success") \/ QueueOp("mark_failure"))
       => /\ Len(items') = Len(items)
          /\ \A j \in 1..Len(items) :
               items'[j].attempts
                 = items[j].attempts + (IF j = qLog'[Len(qLog')].i THEN 1 ELSE 0)
  /\ (QueueOp("defer") \/ QueueOp("record_outcome"))
       => /\ Len(items') = Len(items)
          /\ \A j \in 1..Len(items) : items'[j].attempts = items[j].attempts
  /\ QueueOp("add")
       => \A jid \in JobIds(items) : AttemptsOf(items', jid) = AttemptsOf(items, jid)

\* C34: attempts is never negative; no mark_success, mark_failure, defer,
\* record_outcome or add() lowers the attempts of any job_id's entry;
\* mark_success and mark_failure add exactly one to the entry they act on, and
\* defer, record_outcome and a replacing add() leave every counter as it was.
C34_AttemptsMonotone ==
  /\ [](\A i \in 1..Len(items) : items[i].attempts >= 0)
  /\ [][AttemptsStep]_vars

\* A job queued with two attempts fails once more and is then re-added by a
\* task built with no attempts: the entry still counts three.
C34_Witness ==
  /\ Len(qLog) = 3
  /\ LastOp.op = "add"
  /\ LastOp.pre # << >>
  /\ LastOp.pre[1].attempts = 3
  /\ LastOp.arg.attempts = 0
  /\ qLog[2].op = "mark_failure"
  /\ items[Len(items)].attempts = 3

-----------------------------------------------------------------------------
(* Worker claims: submissions over several passes *)

\* C35: over any sequence of worker passes, whatever the collaborators do, no
\* job's application is submitted successfully more than once.
C35_NoDuplicateSubmission ==
  \A j, k \in 1..Len(sentLog) : sentLog[j] = sentLog[k] => j = k

-----------------------------------------------------------------------------
(* Registry claims: alias stability *)

\* The step is a record() call, and the posting it was called with.
RecordCall == Len(regLog') = Len(regLog) + 1
RecordedPosting == regLog'[Len(regLog')].p

\* find(q) gives the same record before and after the step.
StillFound(q) == find(records', aliases', q) = find(records, aliases, q)

\* C36: once find(P) returns the record with key K, a record() call for
\* another posting leaves find(P) at the record with key K: record() re-points
\* no alias to a different record and hides no record.
C36_AliasStability ==
  [][RecordCall =>
       \A q \in RegPostings \ {RecordedPosting} :
         find(records, aliases, q) # None => StillFound(q)]_vars

-----------------------------------------------------------------------------
(* Driver claims: tasks with a terminal outcome *)

\* The queue a driver would load from the store now, and the stored task of a
\* job in it (0 for none).
LoadedQueue(doc) == from_snapshot(doc.queue, clock)

TerminalOn(doc, jid) ==
  /\ get(LoadedQueue(doc), jid) # 0
  /\ LoadedQueue(doc)[get(LoadedQueue(doc), jid)].status \in TerminalOutcomes

PendingOn(doc, jid) ==
  /\ get(LoadedQueue(doc), jid) # 0
  /\ LoadedQueue(doc)[get(LoadedQueue(doc), jid)].status = sPending

\* The running pass holds the job's task with a terminal status.
TerminalHeld(jid) ==
  get(items, jid) # 0 /\ items[get(items, jid)].status \in TerminalOutcomes

\* The step belongs to a driver: a worker pass (run_once) or cmd_apply.
DriverStep == passLog' # passLog /\ passLog'.kind \in {"pass", "apply"}

LoadedJobIds(doc) == {job_id(LoadedQueue(doc)[i]) : i \in 1..Len(LoadedQueue(doc))}

-----------------------------------------------------------------------------
(* Queue claims: re-adding a job whose entry has a terminal status *)

\* The last operation was an add() that found an entry of the job with a
\* terminal status.
ReaddedTerminal ==
  /\ qLog # << >>
  /\ LastOp.op = "add"
  /\ LastOp.pre # << >>
  /\ LastOp.pre[1].status \in TerminalOutcomes

\* The entry add() appended.
Readded == items[Len(items)]

\* due(when) returns that entry.
ReaddedIsDue(when) ==
  \E k \in 1..Len(due(items, when)) : due(items, when)[k] = Len(items)

\* C38 as stated: after add(new_task) onto an entry with a terminal status,
\* the job's entry keeps the existing status and outcome and is returned by
\* due() at no time.
C38_ReaddKeepsTerminal_Original ==
  ReaddedTerminal =>
    /\ Readded.status = LastOp.pre[1].status
    /\ Readded.outcome = LastOp.pre[1].outcome
    /\ \A when \in Times : ~ReaddedIsDue(when)

\* C38, amended: after add(new_task) onto an entry with a terminal status,
\* the job has one entry, the new task with the existing entry's notes put
\* before its own and with the existing attempts and last_error; status,
\* outcome, apply_at and posting are the new task's, so the job is due again
\* whenever the new task is pending and its apply_at has come.
C38_ReaddReplaces ==
  ReaddedTerminal =>
    /\ \A j \in 1..Len(items) : job_id(items[j]) = job_id(LastOp.arg) <=> j = Len(items)
    /\ Readded = [LastOp.arg EXCEPT !.notes = LastOp.pre[1].notes \o LastOp.arg.notes,
                                    !.attempts = LastOp.pre[1].attempts,
                                    !.last_error = LastOp.pre[1].last_error]
    /\ Readded.status = LastOp.arg.status
    /\ Readded.outcome = LastOp.arg.outcome
    /\ \A when \in Times :
         ReaddedIsDue(when)
           <=> (LastOp.arg.status = sPending /\ LastOp.arg.apply_at <= when)

\* A job marked applied is re-added by a new pending task and is due again.
C38_Witness ==
  /\ ReaddedTerminal
  /\ LastOp.pre[1].status = sApplied
  /\ LastOp.pre[1].outcome = sApplied
  /\ Readded.status = sPending
  /\ Readded.outcome = None
  /\ \E when \in Times : ReaddedIsDue(when)

-----------------------------------------------------------------------------
(* Worker claims: dry-run passes *)

\* The note a dry run appends to a task last: after a simulated email send,
\* or in place of the browser submission.
DryRunNotes == {Note("dry_run_email", << >>), Note("dry_run", << >>)}

\* after is before, still pending, with the same attempts, last_error and
\* outcome, deferred to now + retry_delay; its notes are those of before,
\* then what document generation and the SMTP fallback noted, then the
\* dry-run note; nothing notes a submission or a failure.
DryRunHandled(before, after, now) ==
  /\ after.status = sPending
  /\ before.status = sPending
  /\ after.attempts = before.attempts
  /\ after.last_error = before.last_error
  /\ after.outcome = before.outcome
  /\ after.posting = before.posting
  /\ after.apply_at = now + RetryDelay
  /\ Len(after.notes) > Len(before.notes)
  /\ SubSeq(after.notes, 1, Len(before.notes)) = before.notes
  /\ after.notes[Len(after.notes)] \in DryRunNotes
  /\ \A n \in (Len(before.notes) + 1)..Len(after.notes) :
       after.notes[n][1] \notin {"applied", "failed"}

\* A dry-run pass that run_once finished with no collaborator raising.
DryRunPassEnded ==
  /\ passLog.kind = "pass"
  /\ passLog.dry_run
  /\ passLog.end = "saved"
  /\ \A k \in 1..Len(passLog.handled) : passLog.handled[k][2] = "dry_run"

HandledIn(log, i) == \E k \in 1..Len(log.handled) : log.handled[k][1] = i

\* The store after such a pass: every handled task is as DryRunHandled says,
\* every other task is as it was loaded, and nothing is applied.
DryRunStored ==
  DryRunPassEnded =>
    /\ Len(StoredQueue) = Len(passLog.before)
    /\ \A i \in 1..Len(passLog.before) :
         IF HandledIn(passLog, i)
           THEN DryRunHandled(passLog.before[i], StoredQueue[i], passLog.now)
           ELSE StoredQueue[i] = passLog.before[i]

\* One task of a dry-run pass handled with no collaborator raising: the
\* registry, in memory and in the store, and the submissions are untouched,
\* and the task the pass goes on with is as DryRunHandled says.
DryRunStep ==
  ( /\ wPc = "running"
    /\ wCfg.dry_run
    /\ Len(passLog'.handled) = Len(passLog.handled) + 1
    /\ passLog'.handled[Len(passLog'.handled)][2] = "dry_run" )
  => /\ sentLog' = sentLog
     /\ disk'.history = disk.history
     /\ wPc' = "running" =>
          /\ records' = records
          /\ aliases' = aliases
          /\ DryRunHandled(items[wDue[wPos]], items'[wDue[wPos]], wCfg.now)
          /\ \A i \in 1..Len(items) : i # wDue[wPos] => items'[i] = items[i]

\* C39: in a dry-run worker pass in which no collaborator raises, no task is
\* marked applied, no attempts counter grows and no registry record is added
\* or touched; each handled task stays pending and is deferred to
\* now + retry_delay with a dry-run note appended.
C39_DryRunFrame ==
  /\ []DryRunStored
  /\ [][DryRunStep]_vars

\* A dry-run pass over two due tasks, one sent by email and one by the
\* browser, has ended and saved.
C39_Witness ==
  /\ DryRunPassEnded
  /\ Len(passLog.handled) = 2
  /\ \E i, j \in 1..Len(StoredQueue) :
       /\ HandledIn(passLog, i) /\ HandledIn(passLog, j)
       /\ StoredQueue[i].notes = passLog.before[i].notes \o <<Note("dry_run_email", << >>)>>
       /\ StoredQueue[j].notes = passLog.before[j].notes \o <<Note("dry_run", << >>)>>
       /\ StoredQueue[i].apply_at = passLog.now + RetryDelay

-----------------------------------------------------------------------------
(* Shared store claims: a CLI command during a worker pass *)

\* The running pass has saved.
PassSaved == passLog.kind = "pass" /\ passLog.end = "saved" /\ wPc = "idle"

\* The status the store holds for a job (None when the job is not queued).
StoredStatus(jid) ==
  IF get(LoadedQueue(disk), jid) = 0 THEN None
  ELSE LoadedQueue(disk)[get(LoadedQueue(disk), jid)].status

\* C40: when cmd_record_outcome loaded, changed and saved the store between
\* a worker pass's load and that pass's save, the status the command stored
\* is still in the store after the pass has saved.
C40_NoLostUpdate ==
  PassSaved =>
    \A k \in 1..Len(cliLog) :
      cliLog[k].run = runs => StoredStatus(cliLog[k].jid) = cliLog[k].status

====
